---------------------------- MODULE Spec2Model ----------------------------
(***************************************************************************)
(* Model of pyvo's prototype cloud-access code (pyvo/utils/cloud):         *)
(*   - AccessPointContainer and the access-point variants                  *)
(*     (access_points.py),                                                 *)
(*   - the orchestrator CloudHandler and its discovery entry point         *)
(*     generate_access_points (handler.py),                                *)
(*   - the Record/Results mixins (mixin.py),                               *)
(*   - the transfer primitives http_download / aws_download (download.py). *)
(*                                                                         *)
(* Python values: None is the string "None"; an exception that leaves a    *)
(* call is recorded by its class name in the call's `raised` field, "no"   *)
(* when the call returned.                                                 *)
(*                                                                         *)
(* The module holds several specifications over one set of variables; each *)
(* specification drives one part of the code and leaves the variables of   *)
(* the other parts at their initial value.                                 *)
(***************************************************************************)
EXTENDS Integers, Sequences, FiniteSets, TLC

VARIABLES
    apc,          \* SpecContainer: the AccessPointContainer under test
    apc_before,   \* SpecContainer: its value before the last call
    apc_call,     \* SpecContainer: the last call made on it
    ap_accessible,\* the _accessible attribute of every access-point object
    probes,       \* existence probes issued so far for every object
    read,         \* the last read of an `accessible` property
    local_file,   \* size of the file at the destination path, or None
    dl,           \* the last call of an access point's download or of a primitive
    data_product, \* the data product the query returned
    handler,      \* the last CloudHandler(...) call and its object
    results_ap,   \* the access_points attribute of the DALResults (mixin)
    mx,           \* the last enable_cloud call of the mixin
    hd,           \* the last download(provider) call of handler or mixin
    ctor,         \* SpecCtor: the last call of an access-point constructor
    strat,        \* SpecStrategy: the last call of a discovery strategy
    disc,         \* SpecRefresh: discovery runs per record, and the record last enabled
    use,          \* SpecRefresh: the last use of a record's access, uris or download
    prov,         \* SpecProvider: the Provider under test and the last call on it
    pb            \* SpecTransfer: the progress counter and what the reporter was told

varsC == <<apc, apc_before, apc_call>>

varsP == <<ap_accessible, probes, read>>

varsT == <<local_file, dl>>

varsH == <<data_product, handler, results_ap, mx, hd>>

varsS == <<ctor, strat, disc>>

varsG == <<use, prov, pb>>

vars == <<varsC, varsP, varsT, varsH, varsS, varsG>>

None == "None"

Range(s) == {s[i] : i \in 1..Len(s)}

(***************************************************************************)
(* Access-point objects.                                                   *)
(*                                                                         *)
(* ACCESS_MAP registers the two concrete variants, in this order.  The     *)
(* base class AccessPoint has provider None and can be instantiated (the   *)
(* repository's tests add base instances to containers).                   *)
(***************************************************************************)
ACCESS_MAP == <<"prem", "aws">>

AllProviders == Range(ACCESS_MAP) \cup {None}

(* An access-point object: its class, its uid attribute and the identity   *)
(* of the instance.  An object that is no access point has another class.  *)
Obj(cls, uid, id) == [cls |-> cls, uid |-> uid, id |-> id]

APClasses == {"AccessPoint", "PREMAccessPoint", "AWSAccessPoint"}

isAccessPoint(x) == x.cls \in APClasses

(* The class attribute `provider`. *)
provider_of(a) ==
    CASE a.cls = "PREMAccessPoint" -> "prem"
      [] a.cls = "AWSAccessPoint" -> "aws"
      [] OTHER -> None

uid_of(a) == a.uid

(* The objects a caller holds in SpecContainer: A1 and A2 are two distinct *)
(* PREMAccessPoint instances with the same uid, A5 is an instance of the   *)
(* base class, and NotAnAccessPoint is a str.                              *)
A1 == Obj("PREMAccessPoint", "http://some/url", 1)

A2 == Obj("PREMAccessPoint", "http://some/url", 2)

A3 == Obj("PREMAccessPoint", "http://some/url2", 3)

A4 == Obj("AWSAccessPoint", "s3://bucket/key", 4)

A5 == Obj("AccessPoint", "http://some/url", 5)

NotAnAccessPoint == Obj("str", None, 6)

NoObj == Obj("NoneType", None, 0)

AccessPoints == {A1, A2, A3, A4, A5}

Objects == AccessPoints \cup {NotAnAccessPoint}

(***************************************************************************)
(* AccessPointContainer.                                                   *)
(*                                                                         *)
(* self.access_points is a dict provider -> list: `keys` is the dict's key *)
(* order, `lists` its values (<<>> for a provider that is not a key).      *)
(***************************************************************************)
EmptyContainer ==
    [keys |-> <<>>, lists |-> [p \in AllProviders |-> <<>>]]

RECURSIVE uids_concat(_, _)
uids_concat(c, provs) ==
    IF provs = <<>> THEN <<>>
    ELSE [i \in 1..Len(c.lists[Head(provs)]) |-> uid_of(c.lists[Head(provs)][i])]
         \o uids_concat(c, Tail(provs))

(* uids(provider): provider None means every provider of the container.    *)
uids(c, provider) ==
    uids_concat(c, IF provider = None THEN c.keys ELSE <<provider>>)

(* The non-list branch of add_access_point, for an AccessPoint instance.    *)
add_single(c, a) ==
    LET provider == provider_of(a)
        c1 == IF provider \in Range(c.keys) THEN c
              ELSE [c EXCEPT !.keys = Append(@, provider)]
    IN  IF uid_of(a) \in Range(uids(c1, provider)) THEN c1
        ELSE [c1 EXCEPT !.lists[provider] = Append(@, a)]

(* A call argument: an object, or a list (possibly nested) of arguments.    *)
Leaf(a) == [k |-> "obj", ap |-> a, items |-> <<>>]

List(s) == [k |-> "list", ap |-> NoObj, items |-> s]

(* add_access_point(access_point) on the running state                      *)
(* st = [c |-> container, raised |-> exception or "no"].  A list is walked  *)
(* left to right; a ValueError leaves the points added before it in place.  *)
RECURSIVE add_access_point(_, _), add_each(_, _)
add_access_point(st, x) ==
    IF x.k = "list" THEN add_each(st, x.items)
    ELSE IF ~isAccessPoint(x.ap) THEN [st EXCEPT !.raised = "ValueError"]
    ELSE [st EXCEPT !.c = add_single(st.c, x.ap)]

add_each(st, s) ==
    IF s = <<>> \/ st.raised # "no" THEN st
    ELSE add_each(add_access_point(st, Head(s)), Tail(s))

(* AccessPointContainer(args...): every argument must itself be an            *)
(* AccessPoint; anything else (a list included) raises ValueError.          *)
RECURSIVE container_init(_, _)
container_init(st, args) ==
    IF args = <<>> \/ st.raised # "no" THEN st
    ELSE container_init(
            IF isAccessPoint(Head(args))
            THEN add_access_point(st, Leaf(Head(args)))
            ELSE [st EXCEPT !.raised = "ValueError"],
            Tail(args))

(***************************************************************************)
(* Bounds of SpecContainer's inputs.                                       *)
(***************************************************************************)
MaxPts == 2       \* objects in one argument (list leaves, or positional args)

MaxDepth == 2     \* nesting depth of a list argument

RECURSIVE ItemsOf(_, _), ListsOf(_, _)
(* Items / lists with list-nesting budget d holding exactly n objects.      *)
ItemsOf(d, n) ==
    (IF n = 1 THEN {Leaf(a) : a \in Objects} ELSE {})
    \cup (IF d > 0 THEN {List(s) : s \in ListsOf(d - 1, n)} ELSE {})

ListsOf(d, n) ==
    IF n = 0 THEN {<<>>}
    ELSE UNION {{<<it>> \o rest : it \in ItemsOf(d, k), rest \in ListsOf(d, n - k)}
                : k \in 1..n}

(* Arguments of add_access_point: an object, or a list nested at most       *)
(* `depth` deep that holds at most `pts` objects.                           *)
AddArgs(depth, pts) ==
    {Leaf(a) : a \in Objects}
    \cup UNION {{List(s) : s \in ListsOf(depth - 1, n)} : n \in 0..pts}

(* Positional arguments of the constructor. *)
InitArgs(pts) == UNION {[1..n -> Objects] : n \in 0..pts}

NoCall == [op |-> "none", arg |-> NoObj, raised |-> "no"]

(* arg records the object when the call passed a single object, else None.  *)
ArgObj(x) == IF x.k = "obj" THEN x.ap ELSE NoObj

ContainerInit ==
    /\ apc = EmptyContainer
    /\ apc_before = EmptyContainer
    /\ apc_call = NoCall

(* apc = AccessPointContainer(args...).  When the constructor raises, no new  *)
(* container exists and the caller keeps the old one.                       *)
Construct ==
    \E args \in InitArgs(MaxPts) :
        LET r == container_init([c |-> EmptyContainer, raised |-> "no"], args)
        IN  /\ apc_before' = apc
            /\ apc' = IF r.raised = "no" THEN r.c ELSE apc
            /\ apc_call' = [op |-> "init", arg |-> NoObj, raised |-> r.raised]
            /\ UNCHANGED <<varsP, varsT, varsH, varsS, varsG>>

(* apc.add_access_point(x) *)
AddAccessPoint ==
    \E x \in AddArgs(MaxDepth, MaxPts) :
        LET r == add_access_point([c |-> apc, raised |-> "no"], x)
        IN  /\ apc_before' = apc
            /\ apc' = r.c
            /\ apc_call' = [op |-> "add", arg |-> ArgObj(x), raised |-> r.raised]
            /\ UNCHANGED <<varsP, varsT, varsH, varsS, varsG>>

ContainerNext == Construct \/ AddAccessPoint

(***************************************************************************)
(* C1.                                                                     *)
(***************************************************************************)
CountUid(c, provider, uid) ==
    Cardinality({i \in 1..Len(c.lists[provider]) : uid_of(c.lists[provider][i]) = uid})

(* No provider's list holds two access points with the same uid.            *)
C1_NoDuplicateUid ==
    \A p \in AllProviders : \A i, j \in 1..Len(apc.lists[p]) :
        uid_of(apc.lists[p][i]) = uid_of(apc.lists[p][j]) => i = j

(* Adding a point whose (provider, uid) is already present changes nothing. *)
C1_ReAddIsNoOp ==
    (/\ apc_call.op = "add"
     /\ isAccessPoint(apc_call.arg)
     /\ CountUid(apc_before, provider_of(apc_call.arg), uid_of(apc_call.arg)) > 0)
    => apc = apc_before

(* After a point has been added, its provider's list holds its uid once.    *)
C1_AddedOnce ==
    (apc_call.op = "add" /\ isAccessPoint(apc_call.arg))
    => CountUid(apc, provider_of(apc_call.arg), uid_of(apc_call.arg)) = 1

(* C1: after any sequence of constructions and add_access_point calls no    *)
(* provider's list holds two access points with the same uid; adding a      *)
(* point whose (provider, uid) is present leaves the container unchanged;   *)
(* and a pair that has been added is held exactly once under its provider.  *)
C1_DedupPerProvider ==
    C1_NoDuplicateUid /\ C1_ReAddIsNoOp /\ C1_AddedOnce


(***************************************************************************)
(* The `accessible` property of the access-point classes.                  *)
(*                                                                         *)
(* The provider answers an existence probe (requests.head for on-prem,     *)
(* head_object for S3) in one of three ways:                               *)
(*   "ok"     the object exists and may be read;                           *)
(*   "denied" the provider answers with an error status (403 Forbidden):   *)
(*            requests.head returns that response, head_object raises      *)
(*            ClientError;                                                 *)
(*   "error"  the request itself fails (no connection): requests.head and  *)
(*            head_object both raise.                                      *)
(***************************************************************************)
ProbeOutcomes == {"ok", "denied", "error"}

Unprobed == <<>>                \* _accessible is None

Tuple(b, msg) == <<b, msg>>     \* _accessible is (b, msg)

Reason(outcome) == IF outcome = "denied" THEN "403 Forbidden" ELSE "ConnectionError"

(* Result of reading a.accessible with _accessible = cached when the       *)
(* provider would answer `outcome`: the new _accessible, the exception     *)
(* leaving the property ("no" for none), the value returned, and whether a *)
(* probe was sent.                                                         *)
ReadResult(cached, raised, value, probed) ==
    [cached |-> cached, raised |-> raised, value |-> value, probed |-> probed]

AccessPoint_accessible(cached, outcome) ==
    IF cached = Unprobed
    THEN ReadResult(cached, "NotImplementedError", Unprobed, FALSE)
    ELSE ReadResult(cached, "no", cached, FALSE)

PREMAccessPoint_accessible(cached, outcome) ==
    IF cached = Unprobed
    THEN IF outcome = "error"
         THEN ReadResult(cached, "ConnectionError", Unprobed, TRUE)
         ELSE LET t == Tuple(outcome = "ok", IF outcome = "ok" THEN "" ELSE Reason(outcome))
              IN  ReadResult(t, "no", t, TRUE)
    ELSE ReadResult(cached, "no", cached, FALSE)

AWSAccessPoint_accessible(cached, outcome) ==
    IF cached = Unprobed
    THEN LET t == Tuple(outcome = "ok", IF outcome = "ok" THEN "" ELSE Reason(outcome))
         IN  ReadResult(t, "no", t, TRUE)
    ELSE ReadResult(cached, "no", cached, FALSE)

accessible(a, cached, outcome) ==
    CASE a.cls = "PREMAccessPoint" -> PREMAccessPoint_accessible(cached, outcome)
      [] a.cls = "AWSAccessPoint" -> AWSAccessPoint_accessible(cached, outcome)
      [] OTHER -> AccessPoint_accessible(cached, outcome)

MaxProbes == 2    \* probes counted per object (the counter is capped here)

NoRead == [ap |-> NoObj, raised |-> "no", value |-> Unprobed]

(* A caller reads a.accessible. *)
ReadAccessibleOf(a) ==
    \E outcome \in ProbeOutcomes :
        LET r == accessible(a, ap_accessible[a.id], outcome)
        IN  /\ r.probed => probes[a.id] < MaxProbes
            /\ ap_accessible' = [ap_accessible EXCEPT ![a.id] = r.cached]
            /\ probes' = [probes EXCEPT ![a.id] = @ + (IF r.probed THEN 1 ELSE 0)]
            /\ read' = [ap |-> a, raised |-> r.raised, value |-> r.value]


(***************************************************************************)
(* Downloads.                                                              *)
(*                                                                         *)
(* An optional integer (a file size, a ContentLength) is <<>> for None and *)
(* <<n>> for n.  local_file is the size of the file at the destination     *)
(* path, <<>> when there is none.                                          *)
(***************************************************************************)
NoInt == <<>>

MaxSize == 1      \* file sizes and content lengths range over 0..MaxSize

Sizes == {<<n>> : n \in 0..MaxSize}

Lengths == Sizes \cup {NoInt}

(* Names bound at module level in access_points.py (its imports) and in     *)
(* download.py (its imports and functions), and aws_download's parameters.  *)
access_points_names ==
    {"requests", "download_file", "boto3", "botocore", "Path", "os",
     "ProgressBarOrSpinner"}

download_names ==
    {"logging", "threading", "os", "urlparse", "split", "astropy",
     "ProgressBarOrSpinner", "boto3", "botocore", "use_session",
     "http_download", "_s3_is_accessible", "aws_download"}

aws_download_params ==
    {"uri", "bucket_name", "key", "local_filepath", "cache", "timeout",
     "aws_profile", "session", "versboe"}

(* The objects of SpecProbe and SpecTransfer.  W2's uid has an empty key.                       *)
P1 == Obj("PREMAccessPoint", "http://some/url", 1)

W1 == Obj("AWSAccessPoint", "s3://bucket/key", 2)

W2 == Obj("AWSAccessPoint", "s3://bucket/", 3)

B1 == Obj("AccessPoint", None, 4)

APObjs == {P1, W1, W2, B1}

(* self.s3_key as AWSAccessPoint.__init__ derives it from the uid.          *)
s3_key(a) == IF a.uid = "s3://bucket/" THEN "" ELSE "key"

(* self.url of a PREMAccessPoint is its uid.                                *)
url_of(a) == a.uid

(* Outcome of a download call: the exception leaving it, the value          *)
(* returned (NoPath for None), the destination file afterwards, whether     *)
(* bytes were transferred, and whether the call got an answer to every      *)
(* request it sent and so reached its decision to transfer or not.          *)
NoPath == None

DlResult(raised, returned, file, transferred, decided) ==
    [raised |-> raised, returned |-> returned, file |-> file,
     transferred |-> transferred, decided |-> decided]

(* The remote object has `content` bytes; the provider announces that size  *)
(* as the content length, or (announced = FALSE) announces none.            *)
Length(content, announced) == IF announced THEN content ELSE NoInt

(* Size of the file a completed transfer leaves.                            *)
Written(length, content) == content

AccessPoint_download(a) ==
    DlResult("NotImplementedError", NoPath, NoInt, FALSE, FALSE)

(* download_file (astropy) fetches the url into astropy's own cache and     *)
(* returns the path of the cached copy, or raises.                          *)
PREMAccessPoint_download(a, cache, file, outcome) ==
    IF url_of(a) = None THEN DlResult("ValueError", NoPath, file, FALSE, FALSE)
    ELSE IF outcome # "ok" THEN DlResult("URLError", NoPath, file, FALSE, FALSE)
    ELSE DlResult("no", "astropy-cache-path", file, FALSE, TRUE)

AWSAccessPoint_download(a, cache, file, head, length, xfer, content) ==
    IF s3_key(a) = "" THEN DlResult("Exception", NoPath, file, FALSE, FALSE)
    ELSE IF head # "ok" THEN DlResult("ClientError", NoPath, file, FALSE, FALSE)
    ELSE IF cache /\ file # NoInt /\ length # NoInt /\ file = length
    THEN DlResult("no", NoPath, file, FALSE, TRUE)            \* bare `return`
    ELSE IF "threading" \notin access_points_names
    THEN DlResult("NameError", NoPath, file, FALSE, TRUE)     \* threading.Lock()
    ELSE IF xfer # "ok" THEN DlResult("ClientError", NoPath, file, FALSE, FALSE)
    ELSE DlResult("no", "local_path", Written(length, content), TRUE, TRUE)

AP_download(a, cache, file, head, length, xfer, content) ==
    CASE a.cls = "PREMAccessPoint" -> PREMAccessPoint_download(a, cache, file, head)
      [] a.cls = "AWSAccessPoint" ->
            AWSAccessPoint_download(a, cache, file, head, length, xfer, content)
      [] OTHER -> AccessPoint_download(a)

(* http_download(url, local_filepath, cache): get1 answers the first GET,   *)
(* get2 the second one, sent when the cache is not consulted.               *)
http_download(cache, file, get1, length, get2, content) ==
    IF get1 # "ok"
    THEN DlResult(IF get1 = "denied" THEN "HTTPError" ELSE "ConnectionError",
                  NoPath, file, FALSE, FALSE)
    ELSE IF cache /\ file # NoInt
    THEN IF length # NoInt
         THEN IF file # length
              THEN DlResult("no", NoPath, Written(length, content), TRUE, TRUE)
              ELSE DlResult("no", NoPath, file, FALSE, TRUE)
         ELSE DlResult("no", NoPath, file, FALSE, TRUE)
    ELSE IF get2 # "ok"
    THEN DlResult(IF get2 = "denied" THEN "HTTPError" ELSE "ConnectionError",
                  NoPath, file, FALSE, FALSE)
    ELSE DlResult("no", NoPath, Written(length, content), TRUE, TRUE)

(* aws_download(uri, bucket_name, key, local_filepath, cache): head1 and    *)
(* head2 answer the two access checks, xfer the transfer.                   *)
aws_download(uri, bucket_name, key, cache, file, head1, head2, length, xfer, content) ==
    IF uri = None /\ (bucket_name = None /\ key = None)
    THEN DlResult("ValueError", NoPath, file, FALSE, FALSE)
    ELSE IF "verbose" \notin download_names \cup aws_download_params
    THEN DlResult("NameError", NoPath, file, FALSE, TRUE)     \* `if verbose:`
    ELSE IF head1 # "ok" /\ head2 # "ok"
    THEN DlResult("PermissionError", NoPath, file, FALSE, FALSE)
    ELSE IF cache /\ file # NoInt /\ length # NoInt /\ file = length
    THEN DlResult("no", NoPath, file, FALSE, TRUE)
    ELSE IF xfer # "ok" THEN DlResult("ClientError", NoPath, file, FALSE, FALSE)
    ELSE DlResult("no", NoPath, Written(length, content), TRUE, TRUE)

NoDl ==
    [fn |-> "none", cache |-> FALSE, before |-> NoInt,
     length |-> NoInt, raised |-> "no", returned |-> NoPath, after |-> NoInt,
     transferred |-> FALSE, decided |-> FALSE]

(* fn names the function called; for a method, the object's class.          *)
DlCall(fn, cache, length, r) ==
    [fn |-> fn, cache |-> cache, before |-> local_file,
     length |-> length, raised |-> r.raised, returned |-> r.returned,
     after |-> r.file, transferred |-> r.transferred, decided |-> r.decided]

(* The module-level counter bytes_read and the values pb.update was called  *)
(* with since the counter was last set to 0.                                *)
NoPb == [bytes_read |-> 0, reports |-> <<>>]

ProgressInit == pb = NoPb

(* One call of progress_callback(numbytes); the lock makes its two          *)
(* statements one step.                                                     *)
progress_callback(p, numbytes) ==
    [bytes_read |-> p.bytes_read + numbytes,
     reports |-> Append(p.reports, p.bytes_read + numbytes)]

RECURSIVE run_callbacks(_, _)
run_callbacks(p, chunks) ==
    IF chunks = <<>> THEN p
    ELSE run_callbacks(progress_callback(p, Head(chunks)), Tail(chunks))

RECURSIVE Sum(_)
Sum(chunks) == IF chunks = <<>> THEN 0 ELSE Head(chunks) + Sum(Tail(chunks))

(* The byte counts boto3's worker threads pass to the callback, in the      *)
(* order in which the threads get the lock.                                 *)
Chunkings(content) ==
    {chunks \in UNION {[1..m -> 1..content[1]] : m \in 0..content[1]} :
        Sum(chunks) = content[1]}

(* bkt.download_file(..., Callback=progress_callback) of a call that got    *)
(* to the transfer; a call that did not leaves the counter alone.           *)
Progress(r, chunks) ==
    IF r.transferred THEN run_callbacks(NoPb, chunks) ELSE pb

(* A caller calls a.download(cache). *)
APDownload ==
    \E a \in APObjs, cache, announced \in BOOLEAN, head, xfer \in ProbeOutcomes,
       content \in Sizes :
        LET length == Length(content, announced)
            r == AP_download(a, cache, local_file, head, length, xfer, content)
        IN  /\ local_file' = r.file
            /\ dl' = DlCall(a.cls, cache, length, r)
            /\ \E chunks \in Chunkings(content) : pb' = Progress(r, chunks)
            /\ UNCHANGED <<varsP, varsC, varsH, varsS, use, prov>>

HttpDownload ==
    \E cache, announced \in BOOLEAN, get1, get2 \in ProbeOutcomes, content \in Sizes :
        LET length == Length(content, announced)
            r == http_download(cache, local_file, get1, length, get2, content)
        IN  /\ local_file' = r.file
            /\ dl' = DlCall("http_download", cache, length, r)
            /\ UNCHANGED <<varsP, varsC, varsH, varsS, varsG>>

AwsDownload ==
    \E uri \in {None, "s3://bucket/key"}, bucket_name \in {None, "bucket"},
       key \in {None, "key"}, cache, announced \in BOOLEAN,
       head1, head2 \in {"ok", "denied"}, xfer \in {"ok", "error"}, content \in Sizes :
        LET length == Length(content, announced)
            r == aws_download(uri, bucket_name, key, cache, local_file,
                              head1, head2, length, xfer, content)
        IN  /\ local_file' = r.file
            /\ dl' = DlCall("aws_download", cache, length, r)
            /\ \E chunks \in Chunkings(content) : pb' = Progress(r, chunks)
            /\ UNCHANGED <<varsP, varsC, varsH, varsS, use, prov>>

(* The user's file system changes between calls.                            *)
SetLocalFile ==
    /\ \E f \in Lengths : local_file' = f
    /\ UNCHANGED <<dl, varsP, varsC, varsH, varsS, varsG>>

ReadAccessible ==
    /\ \E a \in APObjs : ReadAccessibleOf(a)
    /\ UNCHANGED <<varsT, varsC, varsH, varsS, varsG>>

APIds == {a.id : a \in APObjs}

ProbeInit ==
    /\ ap_accessible = [i \in APIds |-> Unprobed]
    /\ probes = [i \in APIds |-> 0]
    /\ read = NoRead

TransferInit ==
    /\ local_file = NoInt
    /\ dl = NoDl

TransferNext == APDownload \/ HttpDownload \/ AwsDownload \/ SetLocalFile

(***************************************************************************)
(* Data products.                                                          *)
(*                                                                         *)
(* A product is a pyvo DALResults, one of its Records, an astropy Table,   *)
(* one of its Rows, or something else.  `rows` are the rows of the         *)
(* results/table; a Record or Row is row number `index` of them.           *)
(*                                                                         *)
(* A row holds: the on-prem link (column access_url, which getdataurl()    *)
(* returns for a Record), the parsed cloud_access column, what getbyucd    *)
(* returns for meta.ref.<provider>, and the access_url's the cloudlinks    *)
(* service answers for this row when asked for AWS.                        *)
(***************************************************************************)
U1 == "http://prem/a"

U2 == "http://prem/b"

S1 == "s3://bucket/k1"

S2 == "s3://bucket/k2"

G1 == "gs://bucket/k1"

(* Keyword arguments of an access-point constructor, None when not given.   *)
Params(uid, bucket_name, key) ==
    [uid |-> uid, bucket_name |-> bucket_name, key |-> key]

NoParams == Params(None, None, None)

(* The cloud_access column: absent, or a JSON object whose keys are `has`.  *)
(* The value under a key is the parameter object params[p], or, for the    *)
(* keys in `listed`, the JSON list items[p] of parameter objects.           *)
NoJson ==
    [present |-> FALSE, has |-> {}, params |-> [p \in Range(ACCESS_MAP) |-> NoParams],
     listed |-> {}, items |-> [p \in Range(ACCESS_MAP) |-> <<>>]]

Json(has, prem, aws) ==
    [present |-> TRUE, has |-> has,
     params |-> [p \in Range(ACCESS_MAP) |-> IF p = "prem" THEN prem ELSE aws],
     listed |-> {}, items |-> [p \in Range(ACCESS_MAP) |-> <<>>]]

(* A cloud_access cell whose only key is aws, with a list as its value.     *)
JsonAwsList(items) ==
    [present |-> TRUE, has |-> {"aws"},
     params |-> [p \in Range(ACCESS_MAP) |-> NoParams],
     listed |-> {"aws"},
     items |-> [p \in Range(ACCESS_MAP) |-> IF p = "aws" THEN items ELSE <<>>]]

(* The text of a cloud_access cell, as a column value.                      *)
JsonText == "cloud_access json text"

JsonValues ==
    {NoJson, Json({"prem", "aws"}, Params(U1, None, None), Params(None, "bucket", "k1"))}

NoUcd == [p \in Range(ACCESS_MAP) |-> None]

UcdValues == {NoUcd, [p \in Range(ACCESS_MAP) |-> IF p = "prem" THEN U2 ELSE S1]}

LinkValues == {<<>>, <<S2, S1>>}

RecordRows ==
    [access_url : {None, U1}, json : JsonValues, ucd : UcdValues, links : LinkValues]

TableRows ==
    [access_url : {None, U1}, json : JsonValues, ucd : {NoUcd}, links : {<<>>}]

(* The cloudlinks service of a DALResults: whether get_adhocservice_by_id   *)
(* finds it, whether it declares a PARAM named provider, and that PARAM's   *)
(* options.  An option "aws:r1" is held as its ':'-separated fields.        *)
NoService == [found |-> FALSE, has_provider_par |-> FALSE, options |-> <<>>]

ServiceWithoutProviderPar ==
    [found |-> TRUE, has_provider_par |-> FALSE, options |-> <<>>]

Service(options) == [found |-> TRUE, has_provider_par |-> TRUE, options |-> options]

Services ==
    {NoService, ServiceWithoutProviderPar,
     Service(<< <<"aws", "r1">> >>), Service(<< <<"gc", "r1">>, <<"aws", "r1">> >>)}

MaxRows == 1      \* rows in a DALResults or Table

Product(kind, rows, service, index) ==
    [kind |-> kind, rows |-> rows, service |-> service, index |-> index]

NoProduct == Product("none", <<>>, NoService, 0)

SeqsUpTo(S, n) == UNION {[1..m -> S] : m \in 0..n}

(* A DALResults over the given rows and services, or one of its Records.    *)
RecordProducts(rowset, services) ==
    {Product("DALResults", rows, sv, 0) : rows \in SeqsUpTo(rowset, MaxRows), sv \in services}
    \cup UNION {{Product("Record", rows, sv, i) : i \in 1..Len(rows), sv \in services}
                : rows \in SeqsUpTo(rowset, MaxRows)}

(* An astropy Table over the given rows, or one of its Rows.                *)
TableProducts(rowset) ==
    {Product("Table", rows, NoService, 0) : rows \in SeqsUpTo(rowset, MaxRows)}
    \cup UNION {{Product("Row", rows, NoService, i) : i \in 1..Len(rows)}
                : rows \in SeqsUpTo(rowset, MaxRows)}

Products ==
    RecordProducts(RecordRows, Services) \cup TableProducts(TableRows)
    \cup {Product("str", <<>>, NoService, 0)}

isRecord(product) == product.kind \in {"Record", "DALResults"}

(***************************************************************************)
(* Results of calls that may raise.                                        *)
(***************************************************************************)
Ok(v) == [raised |-> "no", value |-> v]

Raise(e) == [raised |-> e, value |-> <<>>]

Min(S) == CHOOSE m \in S : \A n \in S : m <= n

(* The exception of the first call of rs that raised, "no" if none did.     *)
FirstRaised(rs) ==
    LET bad == {i \in 1..Len(rs) : rs[i].raised # "no"}
    IN  IF bad = {} THEN "no" ELSE rs[Min(bad)].raised

AllOk(rs) ==
    IF FirstRaised(rs) = "no" THEN Ok([i \in 1..Len(rs) |-> rs[i].value])
    ELSE Raise(FirstRaised(rs))

RECURSIVE Flatten(_)
Flatten(ss) == IF ss = <<>> THEN <<>> ELSE Head(ss) \o Flatten(Tail(ss))

(***************************************************************************)
(* Access-point constructors.                                              *)
(*                                                                         *)
(* The identity of an instance created for a product says where it was     *)
(* created: for row i, by source src (0 the default on-prem link, 1 the    *)
(* cloud_access column, 2 the ucd columns, 3 the cloudlinks service), as    *)
(* the k-th point of that source.                                          *)
(***************************************************************************)
InstId(i, src, k) == 100 * i + 10 * src + k

src_of(a) == (a.id % 100) \div 10

startswith_s3(uid) == uid \in {S1, S2, "s3://bucket/key", "s3://bucket/"}

lstrip_slash(key) == IF key = "/k1" THEN "k1" ELSE key

PREMAccessPoint_init(p, id) ==
    IF p.uid = None THEN Raise("TypeError")      \* uid is a required argument
    ELSE Ok(Obj("PREMAccessPoint", p.uid, id))

AWSAccessPoint_init(p, id) ==
    IF p.uid = None
    THEN IF p.bucket_name = None \/ p.key = None THEN Raise("ValueError")
         ELSE Ok(Obj("AWSAccessPoint",
                     "s3://" \o p.bucket_name \o "/" \o lstrip_slash(p.key), id))
    ELSE IF ~startswith_s3(p.uid) THEN Raise("ValueError")
    ELSE Ok(Obj("AWSAccessPoint", p.uid, id))

(* ACCESS_MAP[provider] called with the keyword arguments p *)
APClass_init(provider, p, id) ==
    IF provider = "prem" THEN PREMAccessPoint_init(p, id)
    ELSE AWSAccessPoint_init(p, id)

(***************************************************************************)
(* Discovery (handler.py).  `rows` lists the row numbers processed.        *)
(***************************************************************************)
(* A strategy that lets the KeyError of a missing column out.               *)
json_row_strict(row, i) ==
    IF ~row.json.present THEN Raise("KeyError")
    ELSE Ok(<<>>)

json_row(row, i) ==
    IF ~row.json.present THEN Ok(<<>>)           \* KeyError: no json column
    ELSE LET provs == SelectSeq(ACCESS_MAP, LAMBDA p : p \in row.json.has)
         IN  AllOk([k \in 1..Len(provs) |->
                       IF provs[k] \in row.json.listed
                       THEN Raise("AttributeError")     \* a list has no update()
                       ELSE APClass_init(provs[k], row.json.params[provs[k]],
                                         InstId(i, 1, k))])

process_cloud_json(product, rows) ==
    AllOk([n \in 1..Len(rows) |-> json_row(product.rows[rows[n]], rows[n])])

ucd_row(row, i) ==
    LET provs == SelectSeq(ACCESS_MAP, LAMBDA p : row.ucd[p] # None)
    IN  AllOk([k \in 1..Len(provs) |->
                  APClass_init(provs[k], Params(row.ucd[provs[k]], None, None),
                               InstId(i, 2, k))])

(* A strategy that answers rows that are no Records with empty lists.       *)
process_cloud_ucd_lenient(product, rows) ==
    Ok([n \in 1..Len(rows) |-> <<>>])

process_cloud_ucd(product, rows) ==
    IF rows = <<>> THEN Raise("IndexError")
    ELSE IF ~isRecord(product) THEN Raise("ValueError")
    ELSE AllOk([n \in 1..Len(rows) |-> ucd_row(product.rows[rows[n]], rows[n])])

(* What the service answers for one row when called with an option.        *)
service_result(row, option) ==
    IF option[1] = "aws" THEN row.links
    ELSE IF option[1] = "gc" THEN <<G1>>
    ELSE <<>>

(* dl_table of one call: the answers for all rows, each with its row's ID.  *)
dl_table(product, rows, option) ==
    Flatten([n \in 1..Len(rows) |->
                [j \in 1..Len(service_result(product.rows[rows[n]], option)) |->
                    [ID |-> rows[n],
                     access_url |-> service_result(product.rows[rows[n]], option)[j]]]])

(* dl_table[dl_table['ID'] == products[irow][dl_col_id[0]]] *)
dl_res(table, id) == SelectSeq(table, LAMBDA r : r.ID = id)

datalink_row(product, rows, i) ==
    LET options == product.service.options
        found == Flatten([o \in 1..Len(options) |->
                    IF options[o][1] \in Range(ACCESS_MAP)
                    THEN LET res == dl_res(dl_table(product, rows, options[o]), i)
                         IN  [j \in 1..Len(res) |->
                                 [provider |-> options[o][1], uid |-> res[j].access_url]]
                    ELSE <<>>])
    IN  AllOk([k \in 1..Len(found) |->
                  APClass_init(found[k].provider, Params(found[k].uid, None, None),
                               InstId(i, 3, k))])

(* A strategy that lets the error of the service lookup out.                *)
process_cloud_datalinks_strict(product, rows) ==
    IF ~product.service.found \/ ~product.service.has_provider_par
    THEN Raise("DALServiceError")
    ELSE Ok([n \in 1..Len(rows) |-> <<>>])

(* The options with which process_cloud_datalinks executes a DatalinkQuery, *)
(* in order: one query per option of the provider PARAM, sent before the    *)
(* option's prefix is looked up in ACCESS_MAP.                              *)
datalink_queries(product, rows) ==
    IF rows = <<>> \/ ~isRecord(product) THEN <<>>
    ELSE IF ~product.service.found \/ ~product.service.has_provider_par THEN <<>>
    ELSE product.service.options

process_cloud_datalinks(product, rows) ==
    IF rows = <<>> THEN Raise("IndexError")
    ELSE IF ~isRecord(product) THEN Raise("ValueError")
    ELSE IF ~product.service.found \/ ~product.service.has_provider_par
    THEN Ok([n \in 1..Len(rows) |-> <<>>])
    ELSE AllOk([n \in 1..Len(rows) |-> datalink_row(product, rows, rows[n])])

(* The aws_profile keyword argument of a generate_access_points,            *)
(* CloudHandler or enable_cloud call.                                       *)
Profiles == {None, "my-profile"}

(* The keyword arguments with which the source src of an invocation with    *)
(* aws_profile=profile calls the access-point class: the json and ucd       *)
(* strategies are handed the caller's kwargs, process_cloud_datalinks is    *)
(* called without them, and the default on-prem point is built from its    *)
(* url alone.                                                               *)
kwargs_given(src, profile) == IF src \in {1, 2} THEN profile ELSE None

(* kwargs.get('aws_profile', None) in the constructor of access point a.    *)
aws_profile(a, profile) == kwargs_given(src_of(a), profile)

Modes == {"json", "datalink", "ucd", "all"}

(* A merge that takes the three lists in the opposite order.                *)
chain_reversed(json_ap, ucd_ap, dl_ap) == dl_ap \o ucd_ap \o json_ap

(* list(itertools.chain(...)) of one row's three lists *)
chain(json_ap, ucd_ap, dl_ap) == json_ap \o ucd_ap \o dl_ap

(* rows = [product] for a Record or Row, else the rows of the product.      *)
rows_of(product) ==
    IF product.kind \in {"Record", "Row"} THEN <<product.index>>
    ELSE [i \in 1..Len(product.rows) |-> i]

Generated(raised, single, value) ==
    [raised |-> raised, single |-> single, value |-> value]

(* An orchestrator that looks at the mode only after the json strategy ran.  *)
generate_access_points_late_check(product, mode) ==
    IF product.kind \notin {"Record", "DALResults", "Table", "Row"}
    THEN Generated("ValueError", FALSE, <<>>)
    ELSE LET json_ap == process_cloud_json(product, rows_of(product))
         IN  IF json_ap.raised # "no" THEN Generated(json_ap.raised, FALSE, <<>>)
             ELSE IF rows_of(product) = <<>> THEN Generated("IndexError", FALSE, <<>>)
             ELSE Generated("ValueError", FALSE, <<>>)

(* generate_access_points(product, mode): `value` holds one list per row;   *)
(* `single` says that the function returned value[1] itself.                *)
generate_access_points(product, mode) ==
    IF product.kind \notin {"Record", "DALResults", "Table", "Row"}
    THEN Generated("ValueError", FALSE, <<>>)
    ELSE IF mode \notin Modes THEN Generated("ValueError", FALSE, <<>>)
    ELSE
    LET single == product.kind \in {"Record", "Row"}
        rows == rows_of(product)
        empty == Ok([n \in 1..Len(rows) |-> <<>>])
        json_ap == IF mode \in {"json", "all"} THEN process_cloud_json(product, rows)
                   ELSE empty
        ucd_ap == IF isRecord(product) /\ mode \in {"ucd", "all"}
                  THEN process_cloud_ucd(product, rows) ELSE empty
        dl_ap == IF isRecord(product) /\ mode \in {"datalink", "all"}
                 THEN process_cloud_datalinks(product, rows) ELSE empty
    IN  IF json_ap.raised # "no" THEN Generated(json_ap.raised, single, <<>>)
        ELSE IF rows = <<>> THEN Generated("IndexError", single, <<>>)   \* rows[0]
        ELSE IF ucd_ap.raised # "no" THEN Generated(ucd_ap.raised, single, <<>>)
        ELSE IF dl_ap.raised # "no" THEN Generated(dl_ap.raised, single, <<>>)
        ELSE Generated("no", single,
                       [n \in 1..Len(rows) |->
                           chain(json_ap.value[n], ucd_ap.value[n], dl_ap.value[n])])


(***************************************************************************)
(* CloudHandler (handler.py) and CloudResultsMixin.enable_cloud (mixin.py).*)
(***************************************************************************)
(* Column names of a row, in table order, and the value of a column.        *)
colnames(row) ==
    IF row.json.present THEN <<"access_url", "cloud_access">> ELSE <<"access_url">>

column(row, col) == IF col = "access_url" THEN row.access_url ELSE JsonText

(* isinstance(product[col], str) and 'http' in product[col] *)
contains_http(row, col) ==
    IF col = "access_url" THEN row.access_url \in {U1, U2}
    ELSE \E p \in row.json.has : row.json.params[p].uid \in {U1, U2}

UrlColumns == {"auto", "access_url", "nocol", None}

(* _getdataurl(product[i], urlcolumn).  The message of the ValueError for a *)
(* column that does not exist formats the undefined name colname.           *)
_getdataurl(product, i, urlcolumn) ==
    LET row == product.rows[i]
    IN  IF urlcolumn = "auto"
        THEN IF isRecord(product) THEN Ok(row.access_url)     \* product.getdataurl()
             ELSE LET hits == SelectSeq(colnames(row), LAMBDA c : contains_http(row, c))
                  IN  Ok(IF hits = <<>> THEN None ELSE column(row, hits[1]))
        ELSE IF urlcolumn \notin Range(colnames(row)) THEN Raise("NameError")
        ELSE Ok(column(row, urlcolumn))

(* One row's container: the default on-prem point when there is a url, then *)
(* the generated points.                                                    *)
build_container(i, url, generated_ap) ==
    LET st0 == [c |-> EmptyContainer, raised |-> "no"]
        st1 == IF url = None THEN st0
               ELSE add_access_point(st0, Leaf(Obj("PREMAccessPoint", url, InstId(i, 0, 1))))
    IN  add_access_point(st1,
            List([k \in 1..Len(generated_ap) |-> Leaf(generated_ap[k])])).c

(* The outcome of the last CloudHandler(product, mode, urlcolumn) call.     *)
HandlerObj(raised, mode, urlcolumn, product_is_list, access_points) ==
    [called |-> TRUE, raised |-> raised, mode |-> mode, urlcolumn |-> urlcolumn,
     product_is_list |-> product_is_list, access_points |-> access_points]

NoHandler ==
    [called |-> FALSE, raised |-> "no", mode |-> None, urlcolumn |-> None,
     product_is_list |-> FALSE, access_points |-> <<>>]

(* CloudHandler.__init__.  access_points holds one container per row; when  *)
(* product_is_list is False the attribute is access_points[1] itself.       *)
CloudHandler_init(product, mode, urlcolumn) ==
    LET generated_ap == generate_access_points(product, mode)
        rows == rows_of(product)
        urls == [n \in 1..Len(rows) |-> _getdataurl(product, rows[n], urlcolumn)]
    IN  IF generated_ap.raised # "no"
        THEN HandlerObj(generated_ap.raised, mode, urlcolumn, FALSE, <<>>)
        ELSE IF generated_ap.single /\ generated_ap.value[1] = <<>>
        THEN HandlerObj("IndexError", mode, urlcolumn, FALSE, <<>>)   \* generated_ap[0]
        ELSE IF FirstRaised(urls) # "no"
        THEN HandlerObj(FirstRaised(urls), mode, urlcolumn, FALSE, <<>>)
        ELSE HandlerObj("no", mode, urlcolumn, ~generated_ap.single,
                [n \in 1..Len(rows) |->
                    build_container(rows[n], urls[n].value, generated_ap.value[n])])

(* The access_points attribute of a DALResults: absent, or one entry per    *)
(* row, <<>> for None and <<container>> for a container.                    *)
NotEnabled == [has |-> FALSE, entries |-> <<>>]

EnableResult(raised, rebuilt, rap) == [raised |-> raised, rebuilt |-> rebuilt, rap |-> rap]

(* CloudResultsMixin.enable_cloud(mode, refresh) on the results `product`.  *)
CloudResultsMixin_enable_cloud(product, rap, mode, refresh) ==
    IF ~refresh /\ rap.has /\ \A n \in 1..Len(rap.entries) : rap.entries[n] # <<>>
    THEN EnableResult("no", FALSE, rap)
    ELSE LET results == [product EXCEPT !.kind = "DALResults", !.index = 0]
             generated_ap == generate_access_points(results, mode)
         IN  IF generated_ap.raised # "no"
             THEN EnableResult(generated_ap.raised, FALSE, rap)
             ELSE EnableResult("no", TRUE,
                     [has |-> TRUE,
                      entries |-> [n \in 1..Len(results.rows) |->
                          <<build_container(n, results.rows[n].access_url,
                                            generated_ap.value[n])>>]])


(***************************************************************************)
(* download(provider) of CloudHandler and of CloudRecordMixin.             *)
(*                                                                         *)
(* A call runs on st: the _accessible attributes (acc), the probe counts,  *)
(* the destination file, the objects whose accessible was read and whose   *)
(* download was called (in order), the current row's path and msgs, the    *)
(* rows' paths and messages, and the exception that ended the call.        *)
(* env holds what the outside answers during the call: for each location   *)
(* the answer to an existence probe of it, and the fate of a transfer.     *)
(***************************************************************************)
(* Attributes of an AccessPointContainer: its own and those of dict.        *)
AccessPointContainer_attrs ==
    {"access_points", "add_access_point", "uids", "__repr__", "__getitem__",
     "keys", "values", "items", "get", "pop", "update", "clear", "copy",
     "setdefault", "popitem", "fromkeys"}

DownloadState(acc, prb, file) ==
    [acc |-> acc, prb |-> prb, file |-> file, read |-> <<>>, downloaded |-> <<>>,
     path |-> NoPath, msgs |-> <<>>, done |-> FALSE,
     paths |-> <<>>, messages |-> <<>>, raised |-> "no"]

(* for ap in access_points: accessible, msg = ap.accessible; ...            *)
RECURSIVE try_access_points(_, _, _, _)
try_access_points(st, access_points, cache, env) ==
    IF access_points = <<>> \/ st.raised # "no" \/ st.done THEN st
    ELSE
    LET ap == Head(access_points)
        r == accessible(ap, st.acc[ap.id], env.answers[ap.uid])
        st1 == [st EXCEPT !.acc[ap.id] = r.cached,
                          !.prb[ap.id] = @ + (IF r.probed THEN 1 ELSE 0),
                          !.read = Append(@, ap.id)]
    IN  IF r.raised # "no" THEN [st1 EXCEPT !.raised = r.raised]
        ELSE IF r.value[1]
        THEN LET d == AP_download(ap, cache, st.file,
                                  IF ap.cls = "PREMAccessPoint" THEN env.xfer ELSE "ok",
                                  env.content, env.xfer, env.content)
             IN  [st1 EXCEPT !.downloaded = Append(@, ap.id),
                             !.file = d.file,
                             !.raised = d.raised,
                             !.path = d.returned,
                             !.done = TRUE]                    \* break
        ELSE try_access_points([st1 EXCEPT !.msgs = Append(@, r.value[2])],
                               Tail(access_points), cache, env)

(* The loop of CloudHandler.download over the rows' containers.             *)
RECURSIVE download_rows(_, _, _, _, _)
download_rows(st, containers, provider, cache, env) ==
    IF containers = <<>> \/ st.raised # "no" THEN st
    ELSE
    LET access == Head(containers)
        st0 == [st EXCEPT !.path = NoPath, !.msgs = <<>>, !.done = FALSE]
        st1 == IF provider \in Range(access.keys)
               THEN try_access_points(st0, access.lists[provider], cache, env)
               ELSE [st0 EXCEPT !.msgs = <<"No data from " \o provider>>]
    IN  IF "providers" \notin AccessPointContainer_attrs       \* access.providers
        THEN [st EXCEPT !.raised = "AttributeError"]
        ELSE IF st1.raised # "no" THEN st1
        ELSE download_rows([st1 EXCEPT !.paths = Append(@, st1.path),
                                       !.messages = Append(@, st1.msgs)],
                           Tail(containers), provider, cache, env)

(* A download that probes the access points of every provider.             *)
RECURSIVE probe_every(_, _)
probe_every(st, access_points) ==
    IF access_points = <<>> THEN st
    ELSE LET ap == Head(access_points)
             r == accessible(ap, st.acc[ap.id], "denied")
         IN  probe_every([st EXCEPT !.acc[ap.id] = r.cached,
                                    !.prb[ap.id] = @ + (IF r.probed THEN 1 ELSE 0),
                                    !.read = Append(@, ap.id)],
                         Tail(access_points))

download_every_provider(h, provider, cache, st, env) ==
    probe_every(st, Flatten([n \in 1..Len(h.access_points) |->
                    Flatten([k \in 1..Len(ACCESS_MAP) |->
                        h.access_points[n].lists[ACCESS_MAP[k]]])]))

(* CloudHandler.download(provider, cache) on handler h. *)
CloudHandler_download(h, provider, cache, st, env) ==
    download_rows(st, h.access_points, provider, cache, env)

(* An access property that answers with an empty container when the        *)
(* record has none.                                                         *)
CloudRecordMixin_access_lenient(rap, i) ==
    IF rap.has /\ rap.entries[i] # <<>> THEN Ok(rap.entries[i][1])
    ELSE Ok(EmptyContainer)

(* CloudRecordMixin.access of record i of the results.                      *)
CloudRecordMixin_access(rap, i) ==
    IF rap.has /\ rap.entries[i] # <<>> THEN Ok(rap.entries[i][1])
    ELSE Raise("ValueError")      \* No access points; call enable_cloud first

(* CloudRecordMixin.get_cloud_uris(provider) of record i: a provider the    *)
(* container does not hold is a KeyError of its dict.                       *)
CloudRecordMixin_get_cloud_uris(rap, i, provider) ==
    LET access == CloudRecordMixin_access(rap, i)
    IN  IF access.raised # "no" THEN access
        ELSE IF provider # None /\ provider \notin Range(access.value.keys)
        THEN Raise("KeyError")
        ELSE Ok(uids(access.value, provider))

(* CloudRecordMixin.download(provider) on record i of the results.          *)
CloudRecordMixin_download(rap, i, provider, st, env) ==
    IF CloudRecordMixin_access(rap, i).raised # "no"
    THEN [st EXCEPT !.raised = CloudRecordMixin_access(rap, i).raised]  \* self.access
    ELSE IF "providers" \notin AccessPointContainer_attrs
    THEN [st EXCEPT !.raised = "AttributeError"]
    ELSE IF provider \notin Range(rap.entries[i][1].keys)
    THEN [st EXCEPT !.raised = "ValueError"]
    ELSE LET st1 == try_access_points(st, rap.entries[i][1].lists[provider], TRUE, env)
         IN  IF st1.raised # "no" THEN st1
             ELSE [st1 EXCEPT !.paths = <<st1.path>>, !.messages = <<st1.msgs>>]


(***************************************************************************)
(* The orchestrator's state and its operations.                            *)
(***************************************************************************)
(* The last download(provider) call of CloudHandler or CloudRecordMixin.    *)
NoHd ==
    [fn |-> "none", provider |-> None, cache |-> FALSE, row |-> 0, answers |-> <<>>,
     raised |-> "no", paths |-> <<>>, messages |-> <<>>,
     read |-> <<>>, downloaded |-> <<>>]

HdCall(fn, provider, cache, row, answers, st) ==
    [fn |-> fn, provider |-> provider, cache |-> cache, row |-> row,
     answers |-> answers, raised |-> st.raised,
     paths |-> st.paths, messages |-> st.messages,
     read |-> st.read, downloaded |-> st.downloaded]

(* The last enable_cloud call of the mixin.                                 *)
NoMx == [op |-> "none", mode |-> None, refresh |-> FALSE, raised |-> "no", rebuilt |-> FALSE]

HandlerInit ==
    /\ data_product = NoProduct
    /\ handler = NoHandler
    /\ results_ap = NotEnabled
    /\ mx = NoMx
    /\ hd = NoHd

InstancesOf(containers) ==
    UNION {Range(containers[n].lists[p]) : n \in 1..Len(containers), p \in AllProviders}

(* Objects created by a build start unprobed; the objects of the build      *)
(* before it are gone.                                                      *)
fresh(f, containers, v) ==
    [id \in APIds \cup {a.id : a \in InstancesOf(containers)} |->
        IF id \in APIds THEN f[id] ELSE v]

(* The query service answers with a data product.                          *)
QueryFrom(pool) ==
    /\ data_product = NoProduct
    /\ \E pr \in pool : data_product' = pr
    /\ UNCHANGED <<handler, results_ap, mx, hd, varsC, varsP, varsT, varsS, varsG>>

Query == QueryFrom(Products)

(* The user calls CloudHandler(product, mode, urlcolumn), once for the       *)
(* product; code that uses CloudHandler does not use the mixins on the      *)
(* same results.                                                            *)
NewCloudHandler ==
    /\ data_product # NoProduct
    /\ ~handler.called
    /\ mx.op = "none"
    /\ \E mode \in Modes \cup {"bad"}, urlcolumn \in UrlColumns :
          handler' = CloudHandler_init(data_product, mode, urlcolumn)
    /\ ap_accessible' = fresh(ap_accessible, handler'.access_points, Unprobed)
    /\ probes' = fresh(probes, handler'.access_points, 0)
    /\ hd' = NoHd
    /\ UNCHANGED <<data_product, results_ap, mx, read, varsC, varsT, varsS, varsG>>

(* The user calls results.enable_cloud(mode, refresh) for the first time.    *)
ResultsEnableCloud ==
    /\ isRecord(data_product)
    /\ ~handler.called
    /\ mx.op = "none"
    /\ \E mode \in Modes \cup {"bad"}, refresh \in BOOLEAN :
          LET r == CloudResultsMixin_enable_cloud(data_product, results_ap, mode, refresh)
          IN  /\ results_ap' = r.rap
              /\ mx' = [op |-> "enable_cloud", mode |-> mode, refresh |-> refresh,
                        raised |-> r.raised, rebuilt |-> r.rebuilt]
              /\ ap_accessible' = IF r.rebuilt
                                  THEN fresh(ap_accessible, Flatten(r.rap.entries), Unprobed)
                                  ELSE ap_accessible
              /\ probes' = IF r.rebuilt THEN fresh(probes, Flatten(r.rap.entries), 0)
                           ELSE probes
    /\ hd' = NoHd
    /\ UNCHANGED <<data_product, handler, read, varsC, varsT, varsS, varsG>>

(* The locations a provider may be probed for by SpecDownload's products.   *)
Locations(provider) ==
    CASE provider = "prem" -> {U1, U2}
      [] provider = "aws" -> {S1, S2}
      [] OTHER -> {}

(* The size of every remote file in SpecDownload. *)
RemoteContent == <<MaxSize>>

Env(answers, xfer, content) == [answers |-> answers, xfer |-> xfer, content |-> content]

DownloadProviders == {"prem", "aws", "gc"}

Finish(fn, provider, cache, row, answers, st) ==
    /\ \A id \in DOMAIN st.prb : st.prb[id] <= MaxProbes
    /\ ap_accessible' = st.acc
    /\ probes' = st.prb
    /\ local_file' = st.file
    /\ hd' = HdCall(fn, provider, cache, row, answers, st)
    /\ UNCHANGED <<data_product, handler, results_ap, mx, read, dl, varsC, varsS, varsG>>

(* The user calls handler.download(provider, cache). *)
HandlerDownload ==
    /\ handler.called /\ handler.raised = "no"
    /\ \E provider \in DownloadProviders, cache \in BOOLEAN, xfer \in {"ok", "error"} :
       \E answers \in [Locations(provider) -> ProbeOutcomes] :
          Finish("CloudHandler.download", provider, cache, 0, answers,
                 CloudHandler_download(handler, provider, cache,
                     DownloadState(ap_accessible, probes, local_file),
                     Env(answers, xfer, RemoteContent)))

(* The user calls results[i].download(provider). *)
RecordDownload ==
    /\ isRecord(data_product)
    /\ ~handler.called
    /\ \E i \in 1..Len(data_product.rows), provider \in DownloadProviders,
          xfer \in {"ok", "error"} :
       \E answers \in [Locations(provider) -> ProbeOutcomes] :
          Finish("CloudRecordMixin.download", provider, TRUE, i, answers,
                 CloudRecordMixin_download(results_ap, i, provider,
                     DownloadState(ap_accessible, probes, local_file),
                     Env(answers, xfer, RemoteContent)))

(* SpecDownload's products: results and records whose rows are among these. *)
DownloadRows ==
    {[access_url |-> U1, json |-> Json({"prem", "aws"}, Params(U1, None, None),
                                       Params(None, "bucket", "k1")),
      ucd |-> [p \in Range(ACCESS_MAP) |-> IF p = "prem" THEN U2 ELSE S1],
      links |-> <<S2, S1>>],
     [access_url |-> U1, json |-> NoJson, ucd |-> NoUcd, links |-> <<>>],
     [access_url |-> None, json |-> NoJson, ucd |-> NoUcd, links |-> <<>>]}

DownloadProducts == RecordProducts(DownloadRows, {Service(<< <<"aws", "r1">> >>)})

QueryForDownload == QueryFrom(DownloadProducts)

BuildNext == Query \/ NewCloudHandler \/ ResultsEnableCloud

DownloadNext ==
    QueryForDownload \/ NewCloudHandler \/ ResultsEnableCloud
        \/ HandlerDownload \/ RecordDownload


(***************************************************************************)
(* The access-point constructors on texts.                                 *)
(*                                                                         *)
(* A text is a sequence of tokens: a scheme with its colon ("s3:"), the    *)
(* character "/", or another character.  No token but "/" contains a       *)
(* slash, so splitting a text at "/" is splitting its str at '/'.          *)
(* NoText stands for None (an argument that was not given).                *)
(***************************************************************************)
NoText == <<None>>

Schemes == {"s3:", "s5:", "http:", "ftp:"}

S3Prefix == <<"s3:", "/", "/">>

startswith(t, prefix) ==
    Len(t) >= Len(prefix) /\ SubSeq(t, 1, Len(prefix)) = prefix

(* str.split(sep): the pieces between the separators, empty ones included.  *)
RECURSIVE split_from(_, _, _)
split_from(t, sep, piece) ==
    IF t = <<>> THEN <<piece>>
    ELSE IF Head(t) = sep THEN <<piece>> \o split_from(Tail(t), sep, <<>>)
    ELSE split_from(Tail(t), sep, Append(piece, Head(t)))

split(t, sep) == split_from(t, sep, <<>>)

(* sep.join(pieces) *)
RECURSIVE join(_, _)
join(pieces, sep) ==
    IF pieces = <<>> THEN <<>>
    ELSE IF Len(pieces) = 1 THEN pieces[1]
    ELSE pieces[1] \o <<sep>> \o join(Tail(pieces), sep)

(* f's3://{bucket_name}/{key}' *)
s3_uri(bucket_name, key) == S3Prefix \o bucket_name \o <<"/">> \o key

(* The attributes of a constructed access point.                            *)
APAttrs(uid, bucket_name, key) ==
    [uid |-> uid, s3_bucket_name |-> bucket_name, s3_key |-> key]

NoAttrs == APAttrs(NoText, NoText, NoText)

(* A constructor that rejects only the call that gives nothing at all.      *)
AWSAccessPoint__init__lenient(uid, bucket_name, key) ==
    IF uid = NoText /\ bucket_name = NoText /\ key = NoText THEN Raise("ValueError")
    ELSE IF uid = NoText
    THEN Ok(APAttrs(s3_uri(bucket_name, key), bucket_name, key))
    ELSE IF ~startswith(uid, S3Prefix) THEN Raise("ValueError")
    ELSE Ok(APAttrs(uid, split(uid, "/")[3],
                    join(SubSeq(split(uid, "/"), 4, Len(split(uid, "/"))), "/")))

(* AWSAccessPoint.__init__(uid, bucket_name, key) *)
AWSAccessPoint__init__(uid, bucket_name, key) ==
    IF uid = NoText
    THEN IF bucket_name = NoText \/ key = NoText THEN Raise("ValueError")
         ELSE IF key = <<>> THEN Raise("IndexError")            \* key[0]
         ELSE LET key1 == IF key[1] = "/" THEN Tail(key) ELSE key
              IN  Ok(APAttrs(s3_uri(bucket_name, key1), bucket_name, key1))
    ELSE IF ~startswith(uid, S3Prefix) THEN Raise("ValueError")
    ELSE LET _uri == split(uid, "/")
         IN  Ok(APAttrs(uid, _uri[3], join(SubSeq(_uri, 4, Len(_uri)), "/")))

(* PREMAccessPoint.__init__(uid): uid is a required argument; the bucket    *)
(* name and key given with it go into kwargs, which is not used.            *)
PREMAccessPoint__init__(uid, bucket_name, key) ==
    IF uid = NoText THEN Raise("TypeError")
    ELSE Ok(APAttrs(uid, NoText, NoText))

MaxLen == 2       \* tokens in a bucket name or in a key

TextsUpTo(alphabet, n) == UNION {[1..m -> alphabet] : m \in 0..n}

BucketNames(n) == TextsUpTo({"b"}, n)

Keys(n) == TextsUpTo({"k", "/"}, n)

(* Identifiers: a scheme, "//", a bucket name, "/" and a key.                *)
Uids(n) ==
    {<<sc, "/", "/">> \o b \o <<"/">> \o k :
        sc \in Schemes, b \in BucketNames(n), k \in Keys(n)}

NoCtor ==
    [cls |-> None, uid |-> NoText, bucket_name |-> NoText, key |-> NoText,
     raised |-> "no", obj |-> NoAttrs, source |-> NoAttrs]

(* The outcome of cls(uid, bucket_name, key); when the uid passed is that   *)
(* of an access point built before, source holds that uid and the bucket   *)
(* name and key that access point was built from.                          *)
CtorCall(cls, uid, bucket_name, key, r, source) ==
    [cls |-> cls, uid |-> uid, bucket_name |-> bucket_name, key |-> key,
     raised |-> r.raised,
     obj |-> IF r.raised = "no" THEN r.value ELSE NoAttrs,
     source |-> source]

CtorInit == ctor = NoCtor

(* ap = AWSAccessPoint(uid=..., bucket_name=..., key=...), the first        *)
(* access point the caller builds.                                          *)
NewAWSAccessPoint ==
    /\ ctor = NoCtor
    /\ \E uid \in Uids(MaxLen) \cup {NoText},
          bucket_name \in BucketNames(MaxLen) \cup {NoText},
          key \in Keys(MaxLen) \cup {NoText} :
          ctor' = CtorCall("AWSAccessPoint", uid, bucket_name, key,
                           AWSAccessPoint__init__(uid, bucket_name, key), NoAttrs)
    /\ UNCHANGED <<strat, disc, varsC, varsP, varsT, varsH, varsG>>

(* ap = PREMAccessPoint(uid=...) *)
NewPREMAccessPoint ==
    /\ ctor = NoCtor
    /\ \E uid \in Uids(MaxLen) \cup {NoText} :
          ctor' = CtorCall("PREMAccessPoint", uid, NoText, NoText,
                           PREMAccessPoint__init__(uid, NoText, NoText), NoAttrs)
    /\ UNCHANGED <<strat, disc, varsC, varsP, varsT, varsH, varsG>>

(* ap2 = AWSAccessPoint(uid=ap.uid) for the access point ap built last     *)
(* from a bucket name and a key; source keeps that bucket name and key.     *)
RebuildFromUid ==
    /\ ctor.cls = "AWSAccessPoint"
    /\ ctor.raised = "no"
    /\ ctor.uid = NoText
    /\ ctor' = CtorCall("AWSAccessPoint", ctor.obj.uid, NoText, NoText,
                        AWSAccessPoint__init__(ctor.obj.uid, NoText, NoText),
                        APAttrs(ctor.obj.uid, ctor.bucket_name, ctor.key))
    /\ UNCHANGED <<strat, disc, varsC, varsP, varsT, varsH, varsG>>

CtorNext == NewAWSAccessPoint \/ NewPREMAccessPoint \/ RebuildFromUid


(***************************************************************************)
(* The discovery strategies called on their own (SpecStrategy).            *)
(***************************************************************************)
MaxStratRows == 2 \* rows in the list a strategy is called on

NoStrat ==
    [fn |-> "none", product |-> NoProduct, raised |-> "no", value |-> <<>>,
     queries |-> <<>>, mode |-> None]

(* The outcome r of fn(products) for the rows of `product`, with the        *)
(* datalink queries the call executed.                                      *)
StratCall(fn, product, r, queries) ==
    [fn |-> fn, product |-> product, raised |-> r.raised, value |-> r.value,
     queries |-> queries, mode |-> None]

StrategyInit == strat = NoStrat

(* Rows without and with cloud information. *)
PlainRow == [access_url |-> U1, json |-> NoJson, ucd |-> NoUcd, links |-> <<>>]

JsonRow ==
    [access_url |-> U1,
     json |-> Json({"prem", "aws"}, Params(U1, None, None), Params(None, "bucket", "k1")),
     ucd |-> NoUcd, links |-> <<>>]

LinkedRow ==
    [access_url |-> U1, json |-> NoJson,
     ucd |-> [p \in Range(ACCESS_MAP) |-> IF p = "prem" THEN U2 ELSE S1],
     links |-> <<S2, S1>>]

(* The lists a strategy is called on: the Records of a DALResults or the    *)
(* Rows of a Table.                                                         *)
StrategyProducts(n) ==
    {Product("DALResults", rows, sv, 0) :
        rows \in SeqsUpTo({PlainRow, JsonRow, LinkedRow}, n), sv \in Services}
    \cup {Product("Table", rows, NoService, 0) : rows \in SeqsUpTo({PlainRow, JsonRow}, n)}

(* A row whose cloud_access cell lists two parameter objects under aws.     *)
ListRow ==
    [access_url |-> U1,
     json |-> JsonAwsList(<<Params(S1, None, None), Params(None, "bucket", "k1")>>),
     ucd |-> NoUcd, links |-> <<>>]

(* Lists with at least one row of the list shape.                           *)
ListProducts(n) ==
    {Product(kind, rows, NoService, 0) :
        kind \in {"DALResults", "Table"},
        rows \in {rs \in SeqsUpTo({JsonRow, ListRow}, n) : ListRow \in Range(rs)}}

ProcessCloudJson ==
    /\ \E product \in StrategyProducts(MaxStratRows) \cup ListProducts(MaxStratRows) :
          strat' = StratCall("process_cloud_json", product,
                             process_cloud_json(product, rows_of(product)), <<>>)
    /\ UNCHANGED <<ctor, disc, varsC, varsP, varsT, varsH, varsG>>

ProcessCloudUcd ==
    /\ \E product \in StrategyProducts(MaxStratRows) :
          strat' = StratCall("process_cloud_ucd", product,
                             process_cloud_ucd(product, rows_of(product)), <<>>)
    /\ UNCHANGED <<ctor, disc, varsC, varsP, varsT, varsH, varsG>>

ProcessCloudDatalinks ==
    /\ \E product \in StrategyProducts(MaxStratRows) :
          strat' = StratCall("process_cloud_datalinks", product,
                             process_cloud_datalinks(product, rows_of(product)),
                             datalink_queries(product, rows_of(product)))
    /\ UNCHANGED <<ctor, disc, varsC, varsP, varsT, varsH, varsG>>

(* generate_access_points(product, mode) called on the same lists.          *)
GenerateAccessPoints ==
    /\ \E product \in StrategyProducts(MaxStratRows), mode \in Modes :
          strat' = [StratCall("generate_access_points", product,
                              generate_access_points(product, mode), <<>>)
                    EXCEPT !.mode = mode]
    /\ UNCHANGED <<ctor, disc, varsC, varsP, varsT, varsH, varsG>>

StrategyNext ==
    \/ ProcessCloudJson
    \/ ProcessCloudUcd
    \/ ProcessCloudDatalinks
    \/ GenerateAccessPoints

(***************************************************************************)
(* enable_cloud of the mixins, called any number of times on a query       *)
(* result and on its records.                                              *)
(*                                                                         *)
(* disc counts the enable_cloud calls made (calls), names the record of    *)
(* the last one (row, 0 for a call on the results) and counts, per record, *)
(* the containers installed for it so far (runs): the container of a       *)
(* record is the same object as long as its count stays the same.          *)
(***************************************************************************)
RefreshRows == 2  \* records of the query result in SpecRefresh

MaxCalls == 2     \* enable_cloud calls in one behaviour of SpecRefresh

NoDisc == [calls |-> 0, row |-> 0, runs |-> <<>>]

RefreshInit == disc = NoDisc

(* CloudRecordMixin.enable_cloud(mode, refresh) on record i of the results. *)
CloudRecordMixin_enable_cloud(product, rap, i, mode, refresh) ==
    IF ~refresh /\ rap.has /\ rap.entries[i] # <<>>
    THEN EnableResult("no", FALSE, rap)
    ELSE LET record == [product EXCEPT !.kind = "Record", !.index = i]
             generated_ap == generate_access_points(record, mode)
             entries == IF rap.has THEN rap.entries
                        ELSE [n \in 1..Len(product.rows) |-> <<>>]
         IN  IF generated_ap.raised # "no"
             THEN EnableResult(generated_ap.raised, FALSE, rap)
             ELSE EnableResult("no", TRUE,
                     [has |-> TRUE,
                      entries |-> [entries EXCEPT ![i] =
                          <<build_container(i, product.rows[i].access_url,
                                            generated_ap.value[1])>>]])

(* The records whose container a call installed.                            *)
Installed(r, rows) == IF r.rebuilt THEN rows ELSE {}

(* The access points of the installed containers are new objects, not yet   *)
(* probed; those of the other records keep their state.                     *)
fresh_rows(f, rap, rows, v) ==
    [id \in APIds \cup {a.id : a \in InstancesOf(Flatten(rap.entries))} |->
        IF id \in DOMAIN f /\ (id \in APIds \/ id \div 100 \notin rows) THEN f[id] ELSE v]

(* The state after an enable_cloud call with outcome r that installed the   *)
(* containers of the records `rows`.                                        *)
Enabled(op, i, mode, refresh, r, rows) ==
    /\ disc.calls < MaxCalls
    /\ results_ap' = r.rap
    /\ mx' = [op |-> op, mode |-> mode, refresh |-> refresh,
              raised |-> r.raised, rebuilt |-> r.rebuilt]
    /\ disc' = [calls |-> disc.calls + 1, row |-> i,
                runs |-> [n \in 1..Len(disc.runs) |->
                             disc.runs[n] + (IF n \in Installed(r, rows) THEN 1 ELSE 0)]]
    /\ ap_accessible' = fresh_rows(ap_accessible, r.rap, Installed(r, rows), Unprobed)
    /\ probes' = fresh_rows(probes, r.rap, Installed(r, rows), 0)
    /\ UNCHANGED <<data_product, handler, hd, read, ctor, strat, varsC, varsT, varsG>>

RefreshModes == {"all"}

(* The user calls results.enable_cloud(mode, refresh). *)
ResultsEnableCloudAgain ==
    /\ data_product.kind = "DALResults"
    /\ \E mode \in RefreshModes, refresh \in BOOLEAN :
          Enabled("enable_cloud", 0, mode, refresh,
                  CloudResultsMixin_enable_cloud(data_product, results_ap, mode, refresh),
                  1..Len(data_product.rows))

(* The user calls results[i].enable_cloud(mode, refresh). *)
RecordEnableCloud ==
    /\ data_product.kind = "DALResults"
    /\ \E i \in 1..Len(data_product.rows), mode \in RefreshModes, refresh \in BOOLEAN :
          Enabled("record.enable_cloud", i, mode, refresh,
                  CloudRecordMixin_enable_cloud(data_product, results_ap, i, mode, refresh),
                  {i})

(* The user reads the accessible property of an access point of a           *)
(* container: results[i].access[provider][k].accessible.                    *)
ReadAccessibleOfRecord ==
    /\ results_ap.has
    /\ \E a \in InstancesOf(Flatten(results_ap.entries)) : ReadAccessibleOf(a)
    /\ UNCHANGED <<varsT, varsC, varsH, varsS, varsG>>

(* SpecRefresh's query results: RefreshRows records, each with an on-prem   *)
(* url, with or without an S3 entry in its cloud_access column.            *)
RefreshRecords ==
    {[access_url |-> U1, json |-> NoJson, ucd |-> NoUcd, links |-> <<>>],
     [access_url |-> U1, json |-> Json({"aws"}, NoParams, Params(None, "bucket", "k1")),
      ucd |-> NoUcd, links |-> <<>>]}

RefreshProducts ==
    {Product("DALResults", rows, NoService, 0) : rows \in [1..RefreshRows -> RefreshRecords]}

QueryForRefresh ==
    /\ data_product = NoProduct
    /\ \E pr \in RefreshProducts :
          /\ data_product' = pr
          /\ disc' = [NoDisc EXCEPT !.runs = [n \in 1..Len(pr.rows) |-> 0]]
    /\ UNCHANGED <<handler, results_ap, mx, hd, ctor, strat, varsC, varsP, varsT, varsG>>

RefreshNext ==
    QueryForRefresh \/ ResultsEnableCloudAgain \/ RecordEnableCloud
        \/ ReadAccessibleOfRecord

(***************************************************************************)
(* The use of a record of a query result (SpecUse): its access property,   *)
(* get_cloud_uris and download, between enable_cloud calls.                *)
(***************************************************************************)
NoUse == [fn |-> "none", row |-> 0, provider |-> None, raised |-> "no"]

UseCall(fn, row, provider, raised) ==
    [fn |-> fn, row |-> row, provider |-> provider, raised |-> raised]

UseInit == use = NoUse

(* The user reads results[i].access. *)
RecordAccess ==
    /\ data_product.kind = "DALResults"
    /\ \E i \in 1..Len(data_product.rows) :
          use' = UseCall("access", i, None, CloudRecordMixin_access(results_ap, i).raised)
    /\ UNCHANGED <<varsC, varsP, varsT, varsH, varsS, prov, pb>>

(* The user calls results[i].get_cloud_uris(provider). *)
RecordGetCloudUris ==
    /\ data_product.kind = "DALResults"
    /\ \E i \in 1..Len(data_product.rows), provider \in {None, "aws"} :
          use' = UseCall("get_cloud_uris", i, provider,
                         CloudRecordMixin_get_cloud_uris(results_ap, i, provider).raised)
    /\ UNCHANGED <<varsC, varsP, varsT, varsH, varsS, prov, pb>>

(* The user calls results[i].download(provider); every location answers a  *)
(* probe the same way.                                                      *)
RecordDownloadOf ==
    /\ data_product.kind = "DALResults"
    /\ \E i \in 1..Len(data_product.rows), provider \in DownloadProviders,
          outcome \in ProbeOutcomes :
          LET st == CloudRecordMixin_download(results_ap, i, provider,
                        DownloadState(ap_accessible, probes, local_file),
                        Env([l \in Locations(provider) |-> outcome], "ok", RemoteContent))
          IN  /\ \A id \in DOMAIN st.prb : st.prb[id] <= MaxProbes
              /\ ap_accessible' = st.acc
              /\ probes' = st.prb
              /\ local_file' = st.file
              /\ use' = UseCall("download", i, provider, st.raised)
    /\ UNCHANGED <<read, dl, varsC, varsH, varsS, prov, pb>>

UseNext ==
    \/ QueryForRefresh
    \/ ResultsEnableCloudAgain
    \/ RecordEnableCloud
    \/ RecordAccess
    \/ RecordGetCloudUris
    \/ RecordDownloadOf

(***************************************************************************)
(* Provider and find_product_access (cloud.py), SpecProvider.               *)
(*                                                                         *)
(* A Provider holds, per provider name, the list of the parameter lists    *)
(* added for it, each in the order of PROVIDERS[provider].                  *)
(***************************************************************************)
MaxLinks == 3     \* parameter lists held by the Provider that add_provider is called on

PROVIDERS == [prem |-> <<"url">>, aws |-> <<"uri", "bucket_name", "key">>]

ProviderNames == <<"prem", "aws">>      \* the keys of PROVIDERS, in order

Provider__init__ == [name \in DOMAIN PROVIDERS |-> <<>>]

(* Keyword arguments: the value given for each parameter name, None for a   *)
(* name that was not given.                                                 *)
Kwargs(url, uri, bucket_name, key) ==
    [url |-> url, uri |-> uri, bucket_name |-> bucket_name, key |-> key]

ProviderResult(raised, data) == [raised |-> raised, data |-> data]

(* Provider.__add__: a new Provider with the lists of both, one after the   *)
(* other.                                                                   *)
Provider__add__(self, val2) == [name \in DOMAIN PROVIDERS |-> self[name] \o val2[name]]

(* Provider.add_provider(provider, uri, **kwargs) on the Provider `self`.   *)
add_provider(self, provider, uri, kwargs) ==
    IF provider \notin DOMAIN PROVIDERS THEN ProviderResult("ValueError", self)
    ELSE
    LET first == PROVIDERS[provider][1]
        kw == IF uri # None THEN [kwargs EXCEPT ![first] = uri] ELSE kwargs
        params == [j \in 1..Len(PROVIDERS[provider]) |-> kw[PROVIDERS[provider][j]]]
    IN  IF kw[first] # None
           /\ \E n \in 1..Len(self[provider]) : self[provider][n][1] = kw[first]
        THEN ProviderResult("no", self)               \* uri already exists; skip
        ELSE IF \A j \in 1..Len(params) : params[j] = None
        THEN ProviderResult("ValueError", self)
        ELSE ProviderResult("no", [self EXCEPT ![provider] = Append(@, params)])

(* add_provider called for each of `calls` in turn, until one raises.       *)
RECURSIVE add_providers(_, _)
add_providers(r, calls) ==
    IF calls = <<>> \/ r.raised # "no" THEN r
    ELSE add_providers(add_provider(r.data, Head(calls).provider, Head(calls).uri,
                                    Head(calls).kwargs),
                       Tail(calls))

ProviderCall(provider, uri, kwargs) == [provider |-> provider, uri |-> uri, kwargs |-> kwargs]

(* The parameter objects under a provider key of a cloud_access cell.       *)
p_params(cell, provider) ==
    IF provider \notin cell.has THEN <<>>
    ELSE IF provider \in cell.listed THEN cell.items[provider]
    ELSE <<cell.params[provider]>>

(* _process_json_column for one row: **ppar of every parameter object.      *)
_process_json_column(row) ==
    IF ~row.json.present THEN ProviderResult("no", Provider__init__)
    ELSE add_providers(ProviderResult("no", Provider__init__),
            Flatten([k \in 1..Len(ProviderNames) |->
                LET objects == p_params(row.json, ProviderNames[k])
                IN  [j \in 1..Len(objects) |->
                        ProviderCall(ProviderNames[k], None,
                            Kwargs(IF ProviderNames[k] = "prem" THEN objects[j].uid ELSE None,
                                   IF ProviderNames[k] = "aws" THEN objects[j].uid ELSE None,
                                   objects[j].bucket_name, objects[j].key))]]))

NoKwargs == Kwargs(None, None, None, None)

(* _process_ucd_column for one Record. *)
_process_ucd_column(row) ==
    add_providers(ProviderResult("no", Provider__init__),
        LET found == SelectSeq(ProviderNames, LAMBDA name : row.ucd[name] # None)
        IN  [k \in 1..Len(found) |-> ProviderCall(found[k], row.ucd[found[k]], NoKwargs)])

(* _process_cloud_datalinks for one Record of results with `service`.       *)
_process_cloud_datalinks(row, service) ==
    IF ~service.found \/ ~service.has_provider_par
    THEN ProviderResult("no", Provider__init__)
    ELSE add_providers(ProviderResult("no", Provider__init__),
            Flatten([o \in 1..Len(service.options) |->
                IF service.options[o][1] \notin DOMAIN PROVIDERS THEN <<>>
                ELSE LET res == service_result(row, service.options[o])
                     IN  [j \in 1..Len(res) |->
                             ProviderCall(service.options[o][1], res[j], NoKwargs)]]))

(* find_product_access(record, mode) for the Record `row`: the Provider     *)
(* json_ap[0] + ucd_ap[0] + dl_ap[0].                                       *)
find_product_access(row, service, mode) ==
    IF mode \notin Modes THEN ProviderResult("ValueError", Provider__init__)
    ELSE
    LET empty == ProviderResult("no", Provider__init__)
        json_ap == IF mode \in {"json", "all"} THEN _process_json_column(row) ELSE empty
        ucd_ap == IF mode \in {"ucd", "all"} THEN _process_ucd_column(row) ELSE empty
        dl_ap == IF mode \in {"datalink", "all"}
                 THEN _process_cloud_datalinks(row, service) ELSE empty
    IN  IF json_ap.raised # "no" THEN ProviderResult(json_ap.raised, Provider__init__)
        ELSE IF ucd_ap.raised # "no" THEN ProviderResult(ucd_ap.raised, Provider__init__)
        ELSE IF dl_ap.raised # "no" THEN ProviderResult(dl_ap.raised, Provider__init__)
        ELSE ProviderResult("no",
                Provider__add__(Provider__add__(json_ap.data, ucd_ap.data), dl_ap.data))

(* The Provider under test, the last function that produced or changed it  *)
(* and what that call raised.                                               *)
NoProv == [fn |-> "none", data |-> Provider__init__, raised |-> "no"]

ProviderInit == prov = NoProv

Links(data) == Len(data["prem"]) + Len(data["aws"])

(* The user calls add_provider on the Provider. *)
AddProvider ==
    /\ Links(prov.data) < MaxLinks
    /\ \E provider \in {"prem", "aws", "gc"}, uri \in {None, S1, S2},
          bucket_name \in {None, "bucket"}, key \in {None, "k1"} :
          LET r == add_provider(prov.data, provider, uri,
                                Kwargs(None, None, bucket_name, key))
          IN  prov' = [fn |-> "add_provider", data |-> r.data, raised |-> r.raised]
    /\ UNCHANGED <<varsC, varsP, varsT, varsH, varsS, use, pb>>

(* The user calls find_product_access on a Record. *)
FindProductAccess ==
    /\ \E row \in {PlainRow, JsonRow, LinkedRow, ListRow}, service \in Services,
          mode \in Modes \cup {"bad"} :
          LET r == find_product_access(row, service, mode)
          IN  prov' = [fn |-> "find_product_access", data |-> r.data, raised |-> r.raised]
    /\ UNCHANGED <<varsC, varsP, varsT, varsH, varsS, use, pb>>

ProviderNext == AddProvider \/ FindProductAccess

Init ==
    /\ ContainerInit /\ ProbeInit /\ TransferInit /\ HandlerInit
    /\ CtorInit /\ StrategyInit /\ RefreshInit
    /\ UseInit /\ ProviderInit /\ ProgressInit

SpecContainer == Init /\ [][ContainerNext]_vars

SpecUse == Init /\ [][UseNext]_vars

SpecProvider == Init /\ [][ProviderNext]_vars

SpecProbe == Init /\ [][ReadAccessible]_vars

SpecTransfer == Init /\ [][TransferNext]_vars

SpecBuild == Init /\ [][BuildNext]_vars

SpecDownload == Init /\ [][DownloadNext]_vars

SpecCtor == Init /\ [][CtorNext]_vars

SpecStrategy == Init /\ [][StrategyNext]_vars

SpecRefresh == Init /\ [][RefreshNext]_vars


(***************************************************************************)
(* C6 - C9: the access-point variants and the transfer primitives.         *)
(***************************************************************************)
ConcreteClasses == {"PREMAccessPoint", "AWSAccessPoint"}

(* C6: for every access-point instance the existence probe is issued at     *)
(* most once; a read that returns gives the stored tuple.                   *)
C6_ProbedAtMostOnce ==
    /\ \A a \in APObjs : probes[a.id] <= 1
    /\ (read.ap \in APObjs /\ read.raised = "no")
            => read.value = ap_accessible[read.ap.id]

(* The AWS variant alone does probe at most once: its failed probes are     *)
(* stored like its successful ones.                                         *)
C6_AWSProbedAtMostOnce ==
    \A a \in APObjs : a.cls = "AWSAccessPoint" => probes[a.id] <= 1

(* C7: reading accessible on a concrete variant never raises; the result    *)
(* is a (bool, str) tuple.                                                  *)
C7_AccessibleNeverRaises ==
    read.ap.cls \in ConcreteClasses
        => (read.raised = "no" /\ read.value # Unprobed)

(* C8: an access-point download that completes without raising returns     *)
(* the local path, never None.                                              *)
C8_DownloadReturnsPath ==
    (dl.fn \in ConcreteClasses /\ dl.raised = "no") => dl.returned # NoPath

(* C9: a transfer is skipped exactly when cache is True, a file exists at   *)
(* the destination and its size equals the expected content length; in      *)
(* every other case the bytes are transferred and the file is written.      *)
SizeMatches(call) ==
    call.before # NoInt /\ call.length # NoInt /\ call.before = call.length

C9_SkippedIffSizeMatches ==
    (dl.fn \in {"http_download", "aws_download", "AWSAccessPoint"} /\ dl.decided)
        => /\ dl.transferred <=> ~(dl.cache /\ SizeMatches(dl))
           /\ dl.transferred => dl.after # NoInt


(***************************************************************************)
(* C10: the order of a built container.                                    *)
(***************************************************************************)
ResultsOf(product) == [product EXCEPT !.kind = "DALResults", !.index = 0]

(* The access points the sources produce for row i under `mode`, url being  *)
(* the row's on-prem link.                                                  *)
Produced(product, i, mode, url) ==
    LET row == product.rows[i]
        default == IF url = None THEN {} ELSE {Obj("PREMAccessPoint", url, InstId(i, 0, 1))}
        descriptor == IF mode \in {"json", "all"} THEN Range(json_row(row, i).value) ELSE {}
        tag == IF isRecord(product) /\ mode \in {"ucd", "all"}
               THEN Range(ucd_row(row, i).value) ELSE {}
        service == IF /\ isRecord(product) /\ mode \in {"datalink", "all"}
                      /\ product.service.found /\ product.service.has_provider_par
                   THEN Range(datalink_row(product, rows_of(product), i).value) ELSE {}
    IN  default \cup descriptor \cup tag \cup service

(* Container c holds exactly the produced points, one per (provider, uid):  *)
(* along every provider's list the sources come in the order default,       *)
(* descriptor, tag, service (and a source's points in the order it gave     *)
(* them), and of the points sharing a uid the earliest produced is held.    *)
InDiscoveryOrder(c, produced) ==
    /\ \A p \in AllProviders : \A j, k \in 1..Len(c.lists[p]) :
          j < k => /\ src_of(c.lists[p][j]) <= src_of(c.lists[p][k])
                   /\ c.lists[p][j].id < c.lists[p][k].id
                   /\ c.lists[p][j].uid # c.lists[p][k].uid
    /\ \A p \in AllProviders :
          Range(c.lists[p]) \subseteq {x \in produced : provider_of(x) = p}
    /\ \A x \in produced : \E e \in Range(c.lists[provider_of(x)]) :
          e.uid = x.uid /\ e.id <= x.id

HandlerBuilt == handler.called /\ handler.raised = "no"

(* C10: in every container built by CloudHandler or by the results'         *)
(* enable_cloud the access points appear in discovery order: the default    *)
(* on-prem point, then the descriptor column's, then the tag columns', then *)
(* the service's; of several points with one identifier the one from the    *)
(* earliest source is kept.                                                 *)
C10_DiscoveryOrder ==
    /\ HandlerBuilt =>
          \A n \in 1..Len(handler.access_points) :
              LET i == rows_of(data_product)[n]
              IN  InDiscoveryOrder(handler.access_points[n],
                      Produced(data_product, i, handler.mode,
                               _getdataurl(data_product, i, handler.urlcolumn).value))
    /\ mx.rebuilt =>
          \A n \in 1..Len(results_ap.entries) :
              InDiscoveryOrder(results_ap.entries[n][1],
                  Produced(ResultsOf(data_product), n, mx.mode,
                           data_product.rows[n].access_url))

(* A built container in which every source contributed and a repeated       *)
(* identifier was dropped: on-prem holds the default point and then a tag   *)
(* point, AWS holds a descriptor point and then a service point.            *)
C10_AllSourcesMerged ==
    /\ HandlerBuilt
    /\ \E n \in 1..Len(handler.access_points) :
          LET c == handler.access_points[n]
              i == rows_of(data_product)[n]
          IN  /\ Len(c.lists["prem"]) = 2 /\ Len(c.lists["aws"]) = 2
              /\ src_of(c.lists["prem"][1]) = 0 /\ src_of(c.lists["prem"][2]) = 2
              /\ src_of(c.lists["aws"][1]) = 1 /\ src_of(c.lists["aws"][2]) = 3
              /\ Cardinality(Produced(data_product, i, handler.mode,
                     _getdataurl(data_product, i, handler.urlcolumn).value)) > 4

(***************************************************************************)
(* C2 - C5: download(provider).                                            *)
(***************************************************************************)
(* The containers the last download call ran over, each with its row.       *)
CallRows ==
    IF hd.fn = "CloudHandler.download"
    THEN [n \in 1..Len(handler.access_points) |->
             [i |-> rows_of(data_product)[n], c |-> handler.access_points[n]]]
    ELSE IF hd.fn = "CloudRecordMixin.download" /\ results_ap.has
    THEN <<[i |-> hd.row, c |-> results_ap.entries[hd.row][1]]>>
    ELSE <<>>

Candidates(c) == c.lists[hd.provider]

HasProvider(c) == hd.provider \in Range(c.keys)

OfRow(ids, i) == SelectSeq(ids, LAMBDA id : id \div 100 = i)

Ids(aps) == [k \in 1..Len(aps) |-> aps[k].id]

(* What reading ap.accessible gives in the last call: the memoized tuple    *)
(* when there is one, else what the provider answers for the location.      *)
Reach(ap) ==
    IF ap_accessible[ap.id] # Unprobed
    THEN IF ap_accessible[ap.id][1] THEN "ok" ELSE "denied"
    ELSE hd.answers[ap.uid]

FailureMessage(ap) ==
    IF ap_accessible[ap.id] # Unprobed THEN ap_accessible[ap.id][2]
    ELSE Reason(hd.answers[ap.uid])

(* The first reachable candidate, when every one before it is unreachable   *)
(* without an error; 0 when there is none.                                  *)
FirstReachable(aps) ==
    LET oks == {k \in 1..Len(aps) :
                   /\ Reach(aps[k]) = "ok"
                   /\ \A j \in 1..(k - 1) : Reach(aps[j]) = "denied"}
    IN  IF oks = {} THEN 0 ELSE Min(oks)

AllDenied(aps) == \A k \in 1..Len(aps) : Reach(aps[k]) = "denied"

(* C2: for every container that has the requested provider, download reads *)
(* accessible of that provider's points in container order, downloads       *)
(* exactly the first reachable one, and touches none after it.              *)
C2_FirstReachableDownloaded ==
    \A n \in 1..Len(CallRows) :
        LET aps == Candidates(CallRows[n].c)
            f == FirstReachable(aps)
        IN  (HasProvider(CallRows[n].c) /\ (n = 1 \/ hd.raised = "no"))
            => /\ f > 0 => /\ OfRow(hd.read, CallRows[n].i) = SubSeq(Ids(aps), 1, f)
                           /\ OfRow(hd.downloaded, CallRows[n].i) = <<aps[f].id>>
               /\ \A id \in Range(OfRow(hd.downloaded, CallRows[n].i)) :
                     id \in Range(OfRow(hd.read, CallRows[n].i))

(* C3: when a row's container has no key for the provider (and no candidate *)
(* of another row is reachable), CloudHandler.download does not raise: the  *)
(* row's path is None, its message says that there is no data from the      *)
(* provider, and every row has been processed.                              *)
C3_MissingProviderNoRaise ==
    (/\ hd.fn = "CloudHandler.download"
     /\ \E n \in 1..Len(CallRows) : ~HasProvider(CallRows[n].c)
     /\ \A n \in 1..Len(CallRows) :
           HasProvider(CallRows[n].c) => AllDenied(Candidates(CallRows[n].c)))
    => /\ hd.raised = "no"
       /\ Len(hd.paths) = Len(CallRows)
       /\ \A n \in 1..Len(CallRows) :
             ~HasProvider(CallRows[n].c)
                 => /\ hd.paths[n] = NoPath
                    /\ hd.messages[n] = <<"No data from " \o hd.provider>>

(* C4: when every candidate of the requested provider is unreachable,       *)
(* CloudHandler.download does not raise, the row's path is None and the     *)
(* row's messages are the candidates' failure messages in candidate order.  *)
C4_AllUnreachableReported ==
    (/\ hd.fn = "CloudHandler.download"
     /\ \A n \in 1..Len(CallRows) :
           /\ HasProvider(CallRows[n].c)
           /\ Candidates(CallRows[n].c) # <<>>
           /\ AllDenied(Candidates(CallRows[n].c)))
    => /\ hd.raised = "no"
       /\ \A n \in 1..Len(CallRows) :
             /\ hd.paths[n] = NoPath
             /\ hd.messages[n] =
                    [k \in 1..Len(Candidates(CallRows[n].c)) |->
                        FailureMessage(Candidates(CallRows[n].c)[k])]

(* A step that is a download(provider) call of CloudHandler.                *)
HandlerDownloadStep ==
    /\ hd'.fn = "CloudHandler.download"
    /\ UNCHANGED <<data_product, handler, results_ap, mx>>

OtherProviders(provider) == AllProviders \ {provider}

(* C5: download(P) touches only access points registered under P: no point *)
(* of another provider has its accessible read or its download called, and  *)
(* the _accessible of each stays what it was.                               *)
C5_OnlyRequestedProvider ==
    [][HandlerDownloadStep =>
        \A n \in 1..Len(handler.access_points) :
        \A p \in OtherProviders(hd'.provider) :
        \A ap \in Range(handler.access_points[n].lists[p]) :
            /\ ap.id \notin Range(hd'.read) \cup Range(hd'.downloaded)
            /\ ap_accessible'[ap.id] = ap_accessible[ap.id]
            /\ probes'[ap.id] = probes[ap.id]]_vars

(* download('prem') has been called on a handler whose container holds an  *)
(* on-prem and an object-store access point.                                *)
C5_PremRequestedWithBoth ==
    /\ hd.fn = "CloudHandler.download"
    /\ hd.provider = "prem"
    /\ \E n \in 1..Len(handler.access_points) :
          /\ handler.access_points[n].lists["prem"] # <<>>
          /\ handler.access_points[n].lists["aws"] # <<>>

(***************************************************************************)
(* C11: the singular/collection flag.                                      *)
(***************************************************************************)
ProductKinds == {"Record", "Row", "DALResults", "Table"}

Collections == {"DALResults", "Table"}

(* The handler was built from a product of a supported kind with a valid    *)
(* mode and the default urlcolumn, and discovery raised nothing.            *)
DiscoveryRan ==
    /\ handler.called
    /\ data_product.kind \in ProductKinds
    /\ handler.mode \in Modes
    /\ handler.urlcolumn = "auto"
    /\ generate_access_points(data_product, handler.mode).raised = "no"

(* C11: whatever discovery found (nothing included), a CloudHandler built   *)
(* from a single Record/Row has product_is_list = False and one container,  *)
(* and one built from a collection of n rows has product_is_list = True and *)
(* n containers in row order.                                               *)
C11_FlagFollowsKind ==
    DiscoveryRan
    => /\ handler.raised = "no"
       /\ handler.product_is_list = (data_product.kind \in Collections)
       /\ Len(handler.access_points) = Len(rows_of(data_product))
       /\ \A n \in 1..Len(handler.access_points) :
          \A a \in InstancesOf(<<handler.access_points[n]>>) :
              a.id \div 100 = rows_of(data_product)[n]

(* The same for the products for which discovery found an access point in   *)
(* every row.                                                               *)
C11_FlagWhenFound ==
    (DiscoveryRan
     /\ \A n \in 1..Len(rows_of(data_product)) :
           generate_access_points(data_product, handler.mode).value[n] # <<>>)
    => /\ handler.raised = "no"
       /\ handler.product_is_list = (data_product.kind \in Collections)
       /\ Len(handler.access_points) = Len(rows_of(data_product))

(***************************************************************************)
(* C12: enable_cloud and refresh.                                          *)
(***************************************************************************)
(* A step that is an enable_cloud call, on the results or on a record.      *)
EnableCloudStep == disc'.calls = disc.calls + 1

HasContainer(i) == results_ap.has /\ results_ap.entries[i] # <<>>

(* Record i's container is the same object after the step, with the same    *)
(* access points and the same cached probe results.                         *)
ContainerKept(i) ==
    /\ disc'.runs[i] = disc.runs[i]
    /\ results_ap'.has
    /\ results_ap'.entries[i] = results_ap.entries[i]
    /\ \A a \in InstancesOf(results_ap.entries[i]) :
          ap_accessible'[a.id] = ap_accessible[a.id]

(* C12: an enable_cloud call with refresh=False leaves the container of     *)
(* every record that has one unchanged and runs no discovery for it; a      *)
(* call with refresh=True that raises nothing installs a fresh container    *)
(* for the records it is made on.                                           *)
C12_ReplacedOnlyByRefresh ==
    [][EnableCloudStep =>
        /\ ~mx'.refresh =>
              \A i \in 1..Len(data_product.rows) : HasContainer(i) => ContainerKept(i)
        /\ (mx'.refresh /\ mx'.raised = "no") =>
              \A i \in 1..Len(data_product.rows) :
                  (disc'.row \in {0, i}) => disc'.runs[i] = disc.runs[i] + 1]_vars

(* The part of C12 about calls on a record: a call of a record's            *)
(* enable_cloud with refresh=False leaves that record's container, once it  *)
(* exists, unchanged.                                                       *)
C12_RecordCallKeeps ==
    [][(EnableCloudStep /\ ~mx'.refresh /\ disc'.row # 0) =>
        \A i \in 1..Len(data_product.rows) : HasContainer(i) => ContainerKept(i)]_vars

(***************************************************************************)
(* C13 - C16: the access-point constructors.                               *)
(***************************************************************************)
(* C13: AWSAccessPoint() with no uid and with the bucket name, the key or   *)
(* both missing raises ValueError and yields no access point.               *)
C13_IncompleteParamsRaise ==
    (/\ ctor.cls = "AWSAccessPoint"
     /\ ctor.uid = NoText
     /\ (ctor.bucket_name = NoText \/ ctor.key = NoText))
    => (ctor.raised = "ValueError" /\ ctor.obj = NoAttrs)

(* AWSAccessPoint(bucket_name=...) was called with neither uid nor key.      *)
C13_KeyMissing ==
    /\ ctor.cls = "AWSAccessPoint"
    /\ ctor.uid = NoText
    /\ ctor.bucket_name \notin {NoText, <<>>}
    /\ ctor.key = NoText
    /\ ctor.raised = "ValueError"

(* C14: an AWSAccessPoint built from a uid together with a bucket name or a *)
(* key exists only if these agree with the ones parsed from the uid.        *)
C14_InconsistentRaises ==
    (ctor.cls = "AWSAccessPoint" /\ ctor.uid # NoText /\ ctor.raised = "no")
    => /\ ctor.bucket_name \in {NoText, ctor.obj.s3_bucket_name}
       /\ ctor.key \in {NoText, ctor.obj.s3_key}

HttpSchemes == {"http:", "https:"}

(* The part of C15 about object storage: an AWSAccessPoint that exists has  *)
(* a uid that starts with s3://, and a uid that does not raises ValueError. *)
C15_AWSSchemeChecked ==
    ctor.cls = "AWSAccessPoint"
    => /\ ctor.raised = "no" => startswith(ctor.obj.uid, S3Prefix)
       /\ (ctor.uid # NoText /\ ~startswith(ctor.uid, S3Prefix))
              => ctor.raised = "ValueError"

(* C15: for every provider, an access point that exists has a uid that      *)
(* starts with the provider's scheme.                                       *)
C15_SchemeChecked ==
    /\ C15_AWSSchemeChecked
    /\ (ctor.cls = "PREMAccessPoint" /\ ctor.raised = "no")
          => ctor.obj.uid[1] \in HttpSchemes

BuiltFromParams ==
    /\ ctor.cls = "AWSAccessPoint"
    /\ ctor.uid = NoText
    /\ ctor.bucket_name # NoText
    /\ ctor.key # NoText

RebuiltFromUid == ctor.source # NoAttrs

(* C16: AWSAccessPoint(bucket_name, key) has uid s3://{bucket_name}/{key},  *)
(* and AWSAccessPoint(uid) for that uid has the same bucket name and key.   *)
C16_RoundTrip ==
    /\ BuiltFromParams
          => (ctor.raised = "no" /\ ctor.obj.uid = s3_uri(ctor.bucket_name, ctor.key))
    /\ RebuiltFromUid
          => /\ ctor.raised = "no"
             /\ ctor.obj.s3_bucket_name = ctor.source.s3_bucket_name
             /\ ctor.obj.s3_key = ctor.source.s3_key

PlainKey(key) == key # <<>> /\ key[1] # "/"

(* The round trip of C16 for the keys that are not empty and do not start   *)
(* with '/'.                                                                *)
C16_RoundTripPlainKeys ==
    /\ (BuiltFromParams /\ PlainKey(ctor.key))
          => (ctor.raised = "no" /\ ctor.obj.uid = s3_uri(ctor.bucket_name, ctor.key))
    /\ (RebuiltFromUid /\ PlainKey(ctor.source.s3_key))
          => /\ ctor.raised = "no"
             /\ ctor.obj.s3_bucket_name = ctor.source.s3_bucket_name
             /\ ctor.obj.s3_key = ctor.source.s3_key

(***************************************************************************)
(* C17 - C20: the discovery strategies.                                    *)
(***************************************************************************)
StratRows == strat.product.rows

(* C17: process_cloud_json, called on rows whose cloud_access cells hold one *)
(* parameter object per provider, returns a list as long as its input; a   *)
(* row that has no cloud_access column gets the empty list and raises      *)
(* nothing, and the rows that have the column get their access points.     *)
C17_MissingColumnGivesEmpty ==
    (/\ strat.fn = "process_cloud_json"
     /\ \A n \in 1..Len(StratRows) : StratRows[n].json.listed = {})
    => /\ strat.raised = "no"
       /\ Len(strat.value) = Len(StratRows)
       /\ \A n \in 1..Len(StratRows) :
             IF StratRows[n].json.present
             THEN Len(strat.value[n]) = Cardinality(StratRows[n].json.has)
             ELSE strat.value[n] = <<>>

(* process_cloud_json was called on a row without the column followed by a  *)
(* row with it.                                                             *)
C17_MissingThenPresent ==
    /\ strat.fn = "process_cloud_json"
    /\ Len(StratRows) = 2
    /\ ~StratRows[1].json.present
    /\ StratRows[2].json.present

(* C18: process_cloud_ucd on the Rows of a Table raises ValueError and      *)
(* returns nothing.                                                         *)
C18_UcdOnTableRaises ==
    (/\ strat.fn = "process_cloud_ucd"
     /\ strat.product.kind = "Table"
     /\ StratRows # <<>>)
    => (strat.raised = "ValueError" /\ strat.value = <<>>)

(* process_cloud_ucd was called on the Rows of a Table.                     *)
C18_UcdCalledOnTable ==
    /\ strat.fn = "process_cloud_ucd"
    /\ strat.product.kind = "Table"
    /\ StratRows # <<>>

NoProviderService(sv) == ~sv.found \/ ~sv.has_provider_par

(* C19: when the results have no cloudlinks service, or one without the     *)
(* provider PARAM, process_cloud_datalinks raises nothing, executes no      *)
(* query and returns one empty list per record.                             *)
C19_NoServiceGivesEmpty ==
    (/\ strat.fn = "process_cloud_datalinks"
     /\ strat.product.kind = "DALResults"
     /\ StratRows # <<>>
     /\ NoProviderService(strat.product.service))
    => /\ strat.raised = "no"
       /\ strat.queries = <<>>
       /\ strat.value = [n \in 1..Len(StratRows) |-> <<>>]

(* process_cloud_datalinks was called on records whose results have a       *)
(* cloudlinks service that declares no provider PARAM.                      *)
C19_ServiceWithoutPar ==
    /\ strat.fn = "process_cloud_datalinks"
    /\ strat.product.kind = "DALResults"
    /\ Len(StratRows) = 2
    /\ strat.product.service = ServiceWithoutProviderPar

Registered(option) == option[1] \in Range(ACCESS_MAP)

DatalinksReturned ==
    /\ strat.fn = "process_cloud_datalinks"
    /\ strat.raised = "no"
    /\ ~NoProviderService(strat.product.service)

(* C20: process_cloud_datalinks executes one query per option whose prefix  *)
(* is a registered provider, whatever the number of rows, and none for an   *)
(* option whose prefix is not registered.                                   *)
C20_QueriesOnlyRegistered ==
    DatalinksReturned
    => strat.queries = SelectSeq(strat.product.service.options, Registered)

(* The part of C20 that holds: one query per declared option, whatever the  *)
(* number of rows, and no access point from an unregistered option.         *)
C20_OneQueryPerOption ==
    DatalinksReturned
    => /\ strat.queries = strat.product.service.options
       /\ \A n \in 1..Len(strat.value) : \A k \in 1..Len(strat.value[n]) :
             strat.value[n][k].uid # G1

(***************************************************************************)
(* C21 - C30                                                               *)
(***************************************************************************)
(* The last CloudHandler call created no access point and no container.     *)
NothingBuilt ==
    /\ handler.access_points = <<>>
    /\ DOMAIN ap_accessible = APIds

BadInput == data_product.kind \notin ProductKinds \/ handler.mode \notin Modes

(* C21 as the code has it: a product that is no Record, DALResults, Table   *)
(* or Row, and a mode that is none of json, datalink, ucd and all, are both *)
(* rejected with ValueError, whatever discovery would have raised for the  *)
(* product, and no access point or container has been created.             *)
C21_BadInputValueError ==
    (handler.called /\ BadInput) =>
        (handler.raised = "ValueError" /\ NothingBuilt)

(* C21 witness: a handler was requested with a mode that does not exist    *)
(* for a product of a wrong type.                                           *)
C21_WrongTypeAndMode ==
    handler.called /\ data_product.kind \notin ProductKinds /\ handler.mode \notin Modes

(* C21 as stated: a product of a wrong type is rejected with TypeError,    *)
(* an unknown mode with ValueError, and nothing has been built.             *)
C21_WrongTypeIsTypeError ==
    (handler.called /\ BadInput) =>
        /\ NothingBuilt
        /\ handler.raised =
              IF data_product.kind \notin ProductKinds THEN "TypeError" ELSE "ValueError"

(* What the strategies return on their own for the rows of the last call.   *)
AloneJson == process_cloud_json(strat.product, rows_of(strat.product))

AloneUcd == process_cloud_ucd(strat.product, rows_of(strat.product))

AloneDatalinks == process_cloud_datalinks(strat.product, rows_of(strat.product))

Alone(mode) ==
    CASE mode = "json" -> AloneJson
      [] mode = "ucd" -> AloneUcd
      [] mode = "datalink" -> AloneDatalinks
      [] OTHER ->
            LET rs == <<AloneJson, AloneUcd, AloneDatalinks>>
            IN  IF FirstRaised(rs) # "no" THEN Raise(FirstRaised(rs))
                ELSE Ok([n \in 1..Len(StratRows) |->
                            AloneJson.value[n] \o AloneUcd.value[n]
                                \o AloneDatalinks.value[n]])

SameAsAlone ==
    /\ strat.raised = Alone(strat.mode).raised
    /\ strat.raised = "no" => strat.value = Alone(strat.mode).value

(* C22: generate_access_points(product, mode=m) raises when strategy m      *)
(* raises on the rows and else returns, per row, the access points that    *)
(* strategy m returns; mode all returns per row the json, ucd and datalink *)
(* points in that order.                                                    *)
C22_ModeMatchesStrategy ==
    strat.fn = "generate_access_points" => SameAsAlone

(* C22 for the Records of a query result that has rows: the part that the   *)
(* code keeps.                                                              *)
C22_RecordsMatchStrategy ==
    (/\ strat.fn = "generate_access_points"
     /\ strat.product.kind = "DALResults"
     /\ StratRows # <<>>)
    => SameAsAlone

(* C22 witness: mode all on Records returned points of more than one       *)
(* strategy for a row.                                                      *)
C22_AllModeMerged ==
    /\ strat.fn = "generate_access_points"
    /\ strat.mode = "all"
    /\ strat.raised = "no"
    /\ \E n \in 1..Len(strat.value) :
          {src_of(strat.value[n][k]) : k \in 1..Len(strat.value[n])} = {2, 3}

(* The last CloudHandler call got past discovery: it asked _getdataurl for  *)
(* the url of every row.                                                    *)
AskedForUrls ==
    /\ handler.called
    /\ ~BadInput
    /\ LET generated_ap == generate_access_points(data_product, handler.mode)
       IN  /\ generated_ap.raised = "no"
           /\ ~(generated_ap.single /\ generated_ap.value[1] = <<>>)

(* C23: with urlcolumn=None no row's _getdataurl raises, and no container   *)
(* holds a default on-prem access point.                                    *)
C23_NoneSkipsOnPrem ==
    (AskedForUrls /\ handler.urlcolumn = None)
    => /\ handler.raised = "no"
       /\ Len(handler.access_points) = Len(rows_of(data_product))
       /\ \A a \in InstancesOf(handler.access_points) : src_of(a) # 0

(* The default on-prem points of the container built for the n-th row.      *)
DefaultPoints(n) ==
    {a \in InstancesOf(<<handler.access_points[n]>>) : src_of(a) = 0}

ExplicitColumn == handler.urlcolumn \notin {"auto", None}

ColumnExists ==
    \A n \in 1..Len(rows_of(data_product)) :
        handler.urlcolumn \in Range(colnames(data_product.rows[rows_of(data_product)[n]]))

(* C24: with an explicit urlcolumn the url of a row is the value of that    *)
(* column when the column exists, and ValueError is raised when it does    *)
(* not.                                                                     *)
C24_ExplicitColumnOrValueError ==
    (AskedForUrls /\ ExplicitColumn)
    => IF ColumnExists
       THEN /\ handler.raised = "no"
            /\ \A n \in 1..Len(rows_of(data_product)) :
                  {a.uid : a \in DefaultPoints(n)} =
                     {column(data_product.rows[rows_of(data_product)[n]],
                             handler.urlcolumn)} \ {None}
       ELSE handler.raised = "ValueError"

(* C24 for a column that exists: the part that the code keeps.              *)
C24_ExistingColumnReturned ==
    (AskedForUrls /\ ExplicitColumn /\ ColumnExists)
    => /\ handler.raised = "no"
       /\ \A n \in 1..Len(rows_of(data_product)) :
             {a.uid : a \in DefaultPoints(n)} =
                {column(data_product.rows[rows_of(data_product)[n]],
                        handler.urlcolumn)} \ {None}

(* The value of a column is an http(s) URL (the json text of the            *)
(* cloud_access column is not, whatever it contains).                       *)
is_http_url(row, col) == col = "access_url" /\ row.access_url \in {U1, U2}

(* The on-prem default URL that urlcolumn='auto' is to give for row i.      *)
AutoUrl(product, i) ==
    LET row == product.rows[i]
        urls == SelectSeq(colnames(row), LAMBDA c : is_http_url(row, c))
    IN  IF isRecord(product) THEN row.access_url
        ELSE IF urls = <<>> THEN None
        ELSE column(row, urls[1])

AutoUrlUsed ==
    /\ handler.raised = "no"
    /\ \A n \in 1..Len(rows_of(data_product)) :
          {a.uid : a \in DefaultPoints(n)} =
             {AutoUrl(data_product, rows_of(data_product)[n])} \ {None}

(* C25: with urlcolumn='auto' the default URL of a Record is what its       *)
(* getdataurl gives, and that of any other row is the value of the first   *)
(* column holding an http(s) URL, None when there is none; a string that   *)
(* only contains 'http' is not taken.                                       *)
C25_AutoTakesFirstUrl ==
    (AskedForUrls /\ handler.urlcolumn = "auto") => AutoUrlUsed

(* C25 for Records: the part that the code keeps.                           *)
C25_RecordUsesAccessor ==
    (AskedForUrls /\ handler.urlcolumn = "auto" /\ isRecord(data_product))
    => AutoUrlUsed

(* The parameter objects of a cloud_access cell, provider by provider in    *)
(* the order of ACCESS_MAP and, under a provider, in list order.            *)
ParamObjects(cell) ==
    Flatten([k \in 1..Len(ACCESS_MAP) |->
                LET p == ACCESS_MAP[k]
                    objects == IF p \in cell.listed THEN cell.items[p]
                               ELSE <<cell.params[p]>>
                IN  IF p \notin cell.has THEN <<>>
                    ELSE [j \in 1..Len(objects) |-> [provider |-> p, params |-> objects[j]]]])

(* The uid of the access point built from one parameter object.             *)
UidOf(object) == APClass_init(object.provider, object.params, 0).value.uid

(* C26: whether the value under a provider key is one parameter object or a *)
(* list of them, process_cloud_json raises nothing and gives each row one   *)
(* access point per parameter object, in order.                             *)
C26_OnePointPerObject ==
    strat.fn = "process_cloud_json"
    => /\ strat.raised = "no"
       /\ \A n \in 1..Len(StratRows) :
             LET objects == ParamObjects(StratRows[n].json)
             IN  [k \in 1..Len(strat.value[n]) |-> strat.value[n][k].uid]
                    = [k \in 1..Len(objects) |-> UidOf(objects[k])]

(* C26 for cells that hold one parameter object per provider: the part     *)
(* that the code keeps.                                                     *)
C26_SingleObjectShape ==
    (/\ strat.fn = "process_cloud_json"
     /\ \A n \in 1..Len(StratRows) : StratRows[n].json.listed = {})
    => /\ strat.raised = "no"
       /\ \A n \in 1..Len(StratRows) :
             LET objects == ParamObjects(StratRows[n].json)
             IN  [k \in 1..Len(strat.value[n]) |-> strat.value[n][k].uid]
                    = [k \in 1..Len(objects) |-> UidOf(objects[k])]

(* The last call was an object-storage download that got as far as deciding *)
(* about the transfer and found no cached file of the expected size.        *)
TransferDue ==
    /\ dl.fn \in {"aws_download", "AWSAccessPoint"}
    /\ dl.decided
    /\ ~(dl.cache /\ SizeMatches(dl))

NonDecreasing(reports) ==
    \A j, k \in 1..Len(reports) : j <= k => reports[j] <= reports[k]

AWSPoints(containers) == {a \in InstancesOf(containers) : a.cls = "AWSAccessPoint"}

(* C28: the aws_profile given to CloudHandler is the profile every AWS      *)
(* access point of the invocation was built with, whichever strategy found *)
(* it.                                                                      *)
C28_ProfileOnEveryPoint ==
    (handler.called /\ handler.raised = "no")
    => \A profile \in Profiles : \A a \in AWSPoints(handler.access_points) :
          aws_profile(a, profile) = profile

(* C28 for the points of the cloud_access column and of the ucd columns:    *)
(* the part that the code keeps.                                            *)
C28_ProfileOnJsonAndUcdPoints ==
    (handler.called /\ handler.raised = "no")
    => \A profile \in Profiles : \A a \in AWSPoints(handler.access_points) :
          src_of(a) \in {1, 2} => aws_profile(a, profile) = profile

(* A step that is a use of a record: its access, get_cloud_uris or          *)
(* download.                                                                *)
UseStep == use' # use

(* No container has ever been installed for record i: no enable_cloud call  *)
(* on the results or on that record has run discovery for it.               *)
NeverEnabled(i) == disc.runs[i] = 0

NoProbeOrTransfer ==
    /\ ap_accessible' = ap_accessible
    /\ probes' = probes
    /\ local_file' = local_file

(* When the last enable_cloud call was one on the results and it returned,  *)
(* every record has a container.                                            *)
ResultsCallCoversAll ==
    (mx.op = "enable_cloud" /\ mx.raised = "no")
    => /\ results_ap.has
       /\ \A n \in 1..Len(data_product.rows) : results_ap.entries[n] # <<>>

(* C30: access, get_cloud_uris and download of a record for which no        *)
(* enable_cloud call has run discovery raise ValueError and probe and      *)
(* transfer nothing, also when another record of the result was enabled;   *)
(* and once results.enable_cloud has returned, every record has a          *)
(* container.                                                               *)
C30_UsableOnlyAfterEnable ==
    /\ [][(UseStep /\ NeverEnabled(use'.row))
              => (use'.raised = "ValueError" /\ NoProbeOrTransfer)]_vars
    /\ []ResultsCallCoversAll

(* C30 witness: download was called on a record that was never enabled,    *)
(* after enable_cloud was called on another record of the same result.     *)
C30_DownloadBeforeEnable ==
    /\ use.fn = "download"
    /\ NeverEnabled(use.row)
    /\ results_ap.has
    /\ \E n \in 1..Len(data_product.rows) : results_ap.entries[n] # <<>>
    /\ use.raised = "ValueError"

NoDuplicates(list) ==
    \A j, k \in 1..Len(list) : list[j] = list[k] => j = k

(* C29: a Provider that add_provider or find_product_access has produced    *)
(* lists no location twice under one provider, neither a url or uri that   *)
(* more than one strategy found nor a bucket and key added twice without a *)
(* uri.                                                                     *)
C29_NoLocationTwice ==
    \A name \in DOMAIN PROVIDERS : NoDuplicates(prov.data[name])

(* No list of the Provider has two entries with the same url or uri.        *)
UriOnce(data) ==
    \A name \in DOMAIN PROVIDERS : \A j, k \in 1..Len(data[name]) :
        (data[name][j][1] # None /\ data[name][j][1] = data[name][k][1]) => j = k

(* C29 for one Provider and locations that have a url or uri: the part     *)
(* that the code keeps.  add_provider adds no url or uri that the list     *)
(* already holds.                                                           *)
C29_UriAddedOnce ==
    [][(prov'.fn = "add_provider" /\ UriOnce(prov.data)) => UriOnce(prov'.data)]_vars

=============================================================================
